---- MODULE Spec2Model ----
(***************************************************************************)
(* A model of the AvJason lexing core: the source stream, the peek/lex     *)
(* contract with its three-way result, the quantifier combinators and the  *)
(* token grammar (escapes, strings, identifiers, comments, ...).           *)
(*                                                                         *)
(* Characters are Unicode scalar values (integers).  A source is a         *)
(* sequence of characters; a cursor position i (0-based, as in the code)   *)
(* designates cs[i + 1].  A panic of the program (an unwrap of None) is    *)
(* the result "Panic".                                                     *)
(***************************************************************************)
EXTENDS Integers, Sequences, FiniteSets, TLC

VARIABLES
    chars,      \* Source::characters(): the immutable character array
    index,      \* SourceStream.index: the cursor
    last        \* the last lex call on the stream: its type, start and result

vars == <<chars, index, last>>

(***************************************************************************)
(* Bounds of the model.                                                    *)
(***************************************************************************)
MaxLen == 3
MaxEscLen == 6
MaxIdLen == 7
MaxStrLen == 5

(***************************************************************************)
(* Characters the grammar names.                                           *)
(***************************************************************************)
TAB == 9
LF == 10
VT == 11
FF == 12
CR == 13
SP == 32
DQ == 34
DOLLAR == 36
SQ == 39
STAR == 42
PLUS == 43
COMMA == 44
MINUS == 45
DOT == 46
SLASH == 47
Digit0 == 48
Digit2 == 50
Digit3 == 51
Digit9 == 57
COLON == 58
UpperA == 65
UpperD == 68
UpperE == 69
UpperF == 70
UpperX == 88
LBRACKET == 91
BS == 92
RBRACKET == 93
UNDERSCORE == 95
LowerA == 97
LowerB == 98
LowerE == 101
LowerF == 102
LowerN == 110
LowerR == 114
LowerT == 116
LowerU == 117
LowerV == 118
LowerX == 120
LBRACE == 123
RBRACE == 125
NBSP == 160
ZWNJ == 8204
ZWJ == 8205
LS == 8232
PS == 8233
BOM == 65279
POO == 128169

SeqsUpTo(S, n) == UNION {[1..k -> S] : k \in 0..n}

(***************************************************************************)
(* Loc and Span.                                                           *)
(***************************************************************************)
Span(s, e) == [start |-> s, end |-> e]

\* Span::from(Loc): the span of the one character at loc.
Span_from_loc(loc) == Span(loc, loc + 1)

\* Span::empty(): a zero-length span that knows no cursor position.
Span_empty == Span(0, 0)

\* Span::combine: from this span's start to the end of the last of the others.
Span_combine(self, others) ==
    IF Len(others) > 0
    THEN Span(self.start, others[Len(others)].end)
    ELSE self

\* SpanIter::combine: None for no spans at all.
SpanIter_combine(spans) ==
    IF Len(spans) = 0
    THEN [some |-> FALSE, span |-> Span_empty]
    ELSE [some |-> TRUE, span |-> Span_combine(Head(spans), Tail(spans))]

\* The combination as Spanned for Many / AtLeast / Exactly and the derived
\* Spanned of a compound token take it: the empty span for no spans at all.
combine_or_empty(spans) ==
    IF SpanIter_combine(spans).some
    THEN SpanIter_combine(spans).span
    ELSE Span_empty

\* Source::bounds() of a SourceFile: [0, N).
bounds(cs) == Span(0, Len(cs))

\* Source::in_bounds.
in_bounds(cs, span) == bounds(cs).end >= span.end

(***************************************************************************)
(* SourceStream.                                                           *)
(***************************************************************************)
\* SourceStream::peek / characters().get(index): is there a character?
has_char(cs, i) == i < Len(cs)

\* SourceStream::peek_n(k): the character k places after the cursor.
has_char_n(cs, i, k) == i + k < Len(cs)
peek_n(cs, i, k) == cs[i + k + 1]

\* Lookahead for &str: the upcoming characters equal the literal's.
upcoming_str(lit, cs, i) ==
    /\ i + Len(lit) <= Len(cs)
    /\ \A k \in 1..Len(lit) : cs[i + k] = lit[k]

\* Lookahead for Fn(&char) -> bool; the predicate is passed as the set of
\* characters it holds of.
upcoming_pred(pred, cs, i) == has_char(cs, i) /\ cs[i + 1] \in pred

\* Lookahead for &CharacterRange: start inclusive, end exclusive.
upcoming_range(lo, hi, cs, i) ==
    has_char(cs, i) /\ lo <= cs[i + 1] /\ cs[i + 1] < hi

\* A take that moves the cursor on even when there is no character left.
take_advances_at_end(cs, i) ==
    IF has_char(cs, i)
    THEN [some |-> TRUE, loc |-> i, ch |-> cs[i + 1], idx |-> i + 1]
    ELSE [some |-> FALSE, loc |-> i, ch |-> 0, idx |-> i + 1]

\* SourceStream::take.
take(cs, i) ==
    IF has_char(cs, i)
    THEN [some |-> TRUE, loc |-> i, ch |-> cs[i + 1], idx |-> i + 1]
    ELSE [some |-> FALSE, loc |-> i, ch |-> 0, idx |-> i]

\* SourceStream::take_while: the cursor after the greedy loop.
take_while_end(pred, cs, i) ==
    CHOOSE j \in i..Len(cs) :
        /\ \A k \in i..(j - 1) : cs[k + 1] \in pred
        /\ (j = Len(cs) \/ cs[j + 1] \notin pred)

take_while(pred, cs, i) ==
    LET j == take_while_end(pred, cs, i) IN
    [some |-> j > i, span |-> Span(i, j), idx |-> j]

RECURSIVE LexT_peek(_, _, _)

\* SourceStream::take_until: the predicate reads the stream state; every
\* caller passes <T as LexT>::peek, so the predicate is given by its type T.
take_until_end(T, cs, i) ==
    CHOOSE j \in i..Len(cs) :
        /\ \A k \in i..(j - 1) : ~LexT_peek(T, cs, k)
        /\ (j = Len(cs) \/ LexT_peek(T, cs, j))

take_until(T, cs, i) ==
    LET j == take_until_end(T, cs, i) IN
    [some |-> j > i, span |-> Span(i, j), idx |-> j]

\* Spanned for SourceStream: (index..=index).to_span(source).
stream_span(cs, i) == Span(i, i + 1)

(***************************************************************************)
(* LexResult.                                                              *)
(***************************************************************************)
NoTok == [k |-> "None", span |-> Span_empty]

Lexed(tok, i) == [res |-> "Lexed", idx |-> i, tok |-> tok, err |-> Span_empty]
Nothing(i) == [res |-> "Nothing", idx |-> i, tok |-> NoTok, err |-> Span_empty]
Errant(span, i) == [res |-> "Errant", idx |-> i, tok |-> NoTok, err |-> span]
Panic(i) == [res |-> "Panic", idx |-> i, tok |-> NoTok, err |-> Span_empty]

\* SourceStream::error: an error at the stream's current location.
stream_error(cs, i) == Errant(stream_span(cs, i), i)

\* LexResult::expected / expected_msg.
expected_msg(r, cs) ==
    IF r.res = "Nothing" THEN Errant(stream_span(cs, r.idx), r.idx) ELSE r

\* LexResult::unwrap_as_result (into_result): Nothing is a panic.
unwrap_as_result(r) == IF r.res = "Nothing" THEN Panic(r.idx) ELSE r

(***************************************************************************)
(* The generic Lex entry point is used by every token before the token     *)
(* grammar is complete; it is defined after the tokens.                    *)
(***************************************************************************)
RECURSIVE Lex(_, _, _)

(***************************************************************************)
(* Unicode general categories (the Unicode Character Database, restricted  *)
(* to the code points the model's sources and escapes can denote).         *)
(***************************************************************************)
\* The code points of each minor category.
MinorCategoryTable ==
    [ Cc |-> {0, 3, 9, 10, 11, 12, 13},
      Cf |-> {8204, 8205, 65279},
      Ll |-> {97, 98, 101, 102, 105, 110, 114, 116, 117, 118, 120, 121,
              11554, 11565},
      Lm |-> {12339},
      Lo |-> {11730, 11741, 53794, 53805, 53970, 53981},
      Lu |-> {65, 68, 69, 70, 73, 78, 88, 210, 221},
      Mn |-> {768, 771, 816, 819},
      Nd |-> {48, 50, 51, 57},
      Pc |-> {95},
      Pd |-> {45, 12336},
      Pe |-> {93, 125},
      Po |-> {34, 39, 42, 44, 46, 47, 58, 92, 12291},
      Ps |-> {91, 123},
      Sc |-> {36},
      Sm |-> {43, 8738, 8749, 8914, 8925},
      So |-> {13056, 13059, 13104, 13107, 128169},
      Zl |-> {8232},
      Zp |-> {8233},
      Zs |-> {32, 160, 12288} ]

\* get_minor_category: the category whose code points include c.
get_minor_category(c) ==
    CHOOSE cat \in DOMAIN MinorCategoryTable : c \in MinorCategoryTable[cat]

(***************************************************************************)
(* UTF-16.                                                                 *)
(***************************************************************************)
\* char::encode_utf16: one unit inside the BMP, a surrogate pair outside.
encode_utf16(c) ==
    IF c < 65536
    THEN <<c>>
    ELSE <<55296 + ((c - 65536) \div 1024), 56320 + ((c - 65536) % 1024)>>

is_surrogate(u) == 55296 <= u /\ u <= 57343

\* CharacterValue::try_as_char: the first character char::decode_utf16 yields,
\* None for an unpaired surrogate or no unit at all.
try_as_char(units) ==
    IF Len(units) = 0 THEN [some |-> FALSE, ch |-> 0]
    ELSE IF ~is_surrogate(units[1]) THEN [some |-> TRUE, ch |-> units[1]]
    ELSE IF /\ units[1] < 56320
            /\ Len(units) >= 2
            /\ 56320 <= units[2] /\ units[2] <= 57343
         THEN [some |-> TRUE,
               ch |-> 65536 + (units[1] - 55296) * 1024 + (units[2] - 56320)]
         ELSE [some |-> FALSE, ch |-> 0]

(***************************************************************************)
(* Token types are tuples: <<name, parameters...>>.                        *)
(***************************************************************************)
V(lit) == <<"Verbatim", lit>>
CharPatternT(lo, hi) == <<"CharPattern", lo, hi>>
MinorT(cats) == <<"MatchMinorCategory", cats>>
ManyT(T) == <<"Many", T>>
AtLeastT(n, T) == <<"AtLeast", n, T>>
ExactlyT(n, T) == <<"Exactly", n, T>>

\* The spans of a sequence of tokens.
spans_of(toks) == [n \in 1..Len(toks) |-> toks[n].span]

\* derive(Spanned) of a compound token: the combination of its fields' spans.
derive_Spanned(fields) == combine_or_empty(spans_of(fields))

(***************************************************************************)
(* Verbatim, CharPattern, Unicode-category matcher.                        *)
(***************************************************************************)
Verbatim_peek(lit, cs, i) == upcoming_str(lit, cs, i)

\* take().unwrap() once per character of the literal.
Verbatim_lex(lit, cs, i) ==
    IF i + Len(lit) > Len(cs)
    THEN Panic(Len(cs))
    ELSE Lexed([k |-> "Verbatim",
                span |-> SpanIter_combine(
                    [n \in 1..Len(lit) |-> Span_from_loc(i + n - 1)]).span],
               i + Len(lit))

CharPattern_peek(lo, hi, cs, i) == upcoming_range(lo, hi, cs, i)

CharPattern_lex(cs, i) ==
    LET t == take(cs, i) IN
    IF ~t.some THEN Panic(i)
    ELSE Lexed([k |-> "CharPattern", raw |-> t.ch, span |-> Span_from_loc(t.loc)],
               t.idx)

MatchMinorCategory_peek(cats, cs, i) ==
    has_char(cs, i) /\ get_minor_category(cs[i + 1]) \in cats

MatchMinorCategory_lex(cs, i) ==
    LET t == take(cs, i) IN
    IF ~t.some THEN Panic(i)
    ELSE Lexed([k |-> "MatchMinorCategory", raw |-> t.ch,
                span |-> Span_from_loc(t.loc)], t.idx)

(***************************************************************************)
(* HexDigit and its mathematical value.                                    *)
(***************************************************************************)
is_ascii_hexdigit(c) ==
    \/ Digit0 <= c /\ c <= Digit9
    \/ UpperA <= c /\ c <= UpperF
    \/ LowerA <= c /\ c <= LowerF

HexDigit_peek(cs, i) == upcoming_pred({c \in Nat : is_ascii_hexdigit(c)}, cs, i)

HexDigit_lex(cs, i) ==
    LET t == take(cs, i) IN
    IF ~t.some THEN Panic(i)
    ELSE Lexed([k |-> "HexDigit", raw |-> t.ch, span |-> Span_from_loc(t.loc)],
               t.idx)

HexDigit_mv(tok) ==
    CASE Digit0 <= tok.raw /\ tok.raw <= Digit9 -> tok.raw - Digit0
      [] UpperA <= tok.raw /\ tok.raw <= UpperF -> tok.raw - UpperA + 10
      [] LowerA <= tok.raw /\ tok.raw <= LowerF -> tok.raw - LowerA + 10

(***************************************************************************)
(* Many, AtLeast, Exactly.                                                 *)
(***************************************************************************)
RECURSIVE Many_loop(_, _, _, _)

\* A Many::lex loop that ends on Errant as it does on Nothing.
Many_loop_swallow(T, cs, i, v) ==
    LET r == Lex(T, cs, i) IN
    IF r.res = "Lexed"
    THEN Many_loop(T, cs, r.idx, Append(v, r.tok))
    ELSE Lexed([k |-> "Many", elems |-> v,
                span |-> combine_or_empty(spans_of(v))], i)

\* The loop of Many::lex: v holds the elements lexed so far.
Many_loop(T, cs, i, v) ==
    LET r == Lex(T, cs, i) IN
    CASE r.res = "Lexed" -> Many_loop(T, cs, r.idx, Append(v, r.tok))
      [] r.res = "Nothing" ->
            Lexed([k |-> "Many", elems |-> v,
                   span |-> combine_or_empty(spans_of(v))], i)
      [] OTHER -> r

Many_lex(T, cs, i) == Many_loop(T, cs, i, <<>>)

AtLeast_lex(n, T, cs, i) ==
    LET many == Many_lex(T, cs, i) IN
    IF many.res # "Lexed" THEN many
    ELSE IF Len(many.tok.elems) < n THEN stream_error(cs, many.idx)
    ELSE Lexed([many.tok EXCEPT !.k = "AtLeast"], many.idx)

\* An Exactly::lex that only rejects runs shorter than N.
Exactly_lex_at_least(n, T, cs, i) ==
    LET many == Many_lex(T, cs, i) IN
    IF many.res # "Lexed" THEN many
    ELSE IF Len(many.tok.elems) < n THEN stream_error(cs, many.idx)
    ELSE Lexed([many.tok EXCEPT !.k = "Exactly"], many.idx)

Exactly_lex(n, T, cs, i) ==
    LET many == Many_lex(T, cs, i) IN
    IF many.res # "Lexed" THEN many
    ELSE IF Len(many.tok.elems) # n THEN stream_error(cs, many.idx)
    ELSE Lexed([many.tok EXCEPT !.k = "Exactly"], many.idx)

\* Arithmetic of the integer width the code computes in.
wrap_u8(x) == x % 256
wrap_u16(x) == x % 65536

\* MathematicalValue for Exactly<2, HexDigit>: u8 arithmetic.
Exactly2_mv(tok) ==
    wrap_u8(wrap_u8(HexDigit_mv(tok.elems[1]) * 16) + HexDigit_mv(tok.elems[2]))

\* An Exactly<4, HexDigit> value whose two high digits are computed in u8.
Exactly4_mv_narrow(tok) ==
    wrap_u16(wrap_u16(wrap_u16(
          wrap_u8(HexDigit_mv(tok.elems[1]) * 4096)
        + wrap_u8(HexDigit_mv(tok.elems[2]) * 256))
        + wrap_u16(HexDigit_mv(tok.elems[3]) * 16))
        + HexDigit_mv(tok.elems[4]))

\* MathematicalValue for Exactly<4, HexDigit>: u16 arithmetic.
Exactly4_mv(tok) ==
    wrap_u16(wrap_u16(wrap_u16(
          wrap_u16(HexDigit_mv(tok.elems[1]) * 4096)
        + wrap_u16(HexDigit_mv(tok.elems[2]) * 256))
        + wrap_u16(HexDigit_mv(tok.elems[3]) * 16))
        + HexDigit_mv(tok.elems[4]))

\* MathematicalValue for AtLeast<N, HexDigit>: the sum over the digits,
\* enumerated from the first, of mv * BASE.pow(i); the digit counts the
\* model's sources allow stay far below the width of u64 and usize.
RECURSIVE AtLeast_mv_from(_, _)
AtLeast_mv_from(elems, i) ==
    IF i >= Len(elems) THEN 0
    ELSE HexDigit_mv(elems[i + 1]) * (16 ^ i) + AtLeast_mv_from(elems, i + 1)

AtLeast_mv(tok) == AtLeast_mv_from(tok.elems, 0)

(***************************************************************************)
(* LexResult combinators.                                                  *)
(***************************************************************************)
\* LexResult::map with an enum variant constructor; the variant's derived
\* span is that of its single field.
map_variant(r, kind, name) ==
    IF r.res = "Lexed"
    THEN Lexed([k |-> kind, variant |-> name, inner |-> r.tok,
                span |-> r.tok.span], r.idx)
    ELSE r

\* An or that also falls through to the alternative on Errant.
or_on_errant(r, alt) == IF r.res \in {"Nothing", "Errant"} THEN alt ELSE r

\* LexResult::or: the alternative is tried on Nothing only.  `alt` is the
\* outcome of the closure run on the stream as the receiver left it.
or(r, alt) == IF r.res = "Nothing" THEN alt ELSE r

\* LexResult::and: the mapper runs on Lexed only.  `next` is the outcome of
\* the mapper run on the stream as the receiver left it.
and(r, next) == IF r.res = "Lexed" THEN next ELSE r

(***************************************************************************)
(* Line terminators.                                                       *)
(***************************************************************************)
is_line_terminator(c) == c \in {LF, CR, LS, PS}

LineTerminator_peek(cs, i) ==
    \/ Verbatim_peek(<<LF>>, cs, i)
    \/ Verbatim_peek(<<CR>>, cs, i)
    \/ Verbatim_peek(<<LS>>, cs, i)
    \/ Verbatim_peek(<<PS>>, cs, i)

LineTerminator_lex(cs, i) ==
    unwrap_as_result(
        or(map_variant(Lex(V(<<LF>>), cs, i), "LineTerminator", "LF"),
        or(map_variant(Lex(V(<<CR>>), cs, i), "LineTerminator", "CR"),
        or(map_variant(Lex(V(<<LS>>), cs, i), "LineTerminator", "LS"),
           map_variant(Lex(V(<<PS>>), cs, i), "LineTerminator", "PS")))))

LineTerminatorSequence_peek(cs, i) ==
    \/ Verbatim_peek(<<LF>>, cs, i)
    \/ Verbatim_peek(<<CR>>, cs, i)
    \/ Verbatim_peek(<<LS>>, cs, i)
    \/ Verbatim_peek(<<PS>>, cs, i)

\* A LineTerminatorSequence::lex that tries the lone CR before CR LF.
LineTerminatorSequence_lex_cr_first(cs, i) ==
    unwrap_as_result(
        or(map_variant(Lex(V(<<LF>>), cs, i), "LineTerminatorSequence", "LF"),
        or(map_variant(Lex(V(<<CR>>), cs, i), "LineTerminatorSequence", "CR"),
        or(map_variant(Lex(V(<<CR, LF>>), cs, i), "LineTerminatorSequence", "CRLF"),
        or(map_variant(Lex(V(<<LS>>), cs, i), "LineTerminatorSequence", "LS"),
           map_variant(Lex(V(<<PS>>), cs, i), "LineTerminatorSequence", "PS"))))))

LineTerminatorSequence_lex(cs, i) ==
    unwrap_as_result(
        or(map_variant(Lex(V(<<CR, LF>>), cs, i), "LineTerminatorSequence", "CRLF"),
        or(map_variant(Lex(V(<<LF>>), cs, i), "LineTerminatorSequence", "LF"),
        or(map_variant(Lex(V(<<CR>>), cs, i), "LineTerminatorSequence", "CR"),
        or(map_variant(Lex(V(<<LS>>), cs, i), "LineTerminatorSequence", "LS"),
           map_variant(Lex(V(<<PS>>), cs, i), "LineTerminatorSequence", "PS"))))))

(***************************************************************************)
(* Escape sequences.                                                       *)
(***************************************************************************)
is_single_escape_char(c) ==
    c \in {SQ, DQ, BS, LowerB, LowerF, LowerN, LowerR, LowerT, LowerV}

SingleEscapeChar_peek(cs, i) == upcoming_pred({c \in Nat : is_single_escape_char(c)}, cs, i)

SingleEscapeChar_lex(cs, i) ==
    LET t == take(cs, i) IN
    IF ~t.some THEN Panic(i)
    ELSE Lexed([k |-> "SingleEscapeChar", raw |-> t.ch,
                span |-> Span_from_loc(t.loc)], t.idx)

is_escape_char(c) ==
    \/ is_single_escape_char(c)
    \/ Digit0 <= c /\ c <= Digit9
    \/ c = LowerX
    \/ c = LowerU

NonEscapeChar_pred(c) == ~(is_line_terminator(c) \/ is_escape_char(c))

NonEscapeChar_peek(cs, i) == upcoming_pred({c \in Nat : NonEscapeChar_pred(c)}, cs, i)

NonEscapeChar_lex(cs, i) ==
    LET t == take(cs, i) IN
    IF ~t.some THEN Panic(i)
    ELSE Lexed([k |-> "NonEscapeChar", raw |-> t.ch,
                span |-> Span_from_loc(t.loc)], t.idx)

CharacterEscapeSequence_peek(cs, i) ==
    SingleEscapeChar_peek(cs, i) \/ NonEscapeChar_peek(cs, i)

CharacterEscapeSequence_lex(cs, i) ==
    unwrap_as_result(
        or(map_variant(Lex(<<"SingleEscapeChar">>, cs, i),
                       "CharacterEscapeSequence", "Single"),
           map_variant(Lex(<<"NonEscapeChar">>, cs, i),
                       "CharacterEscapeSequence", "NonEscape")))

\* A Null::peek that does not look at the character after `0`.
Null_peek_any_zero(cs, i) == upcoming_str(<<Digit0>>, cs, i)

Null_peek(cs, i) ==
    /\ upcoming_str(<<Digit0>>, cs, i)
    /\ ~(/\ has_char_n(cs, i, 1)
         /\ Digit0 <= peek_n(cs, i, 1)
         /\ peek_n(cs, i, 1) <= Digit9)

Null_lex(cs, i) ==
    LET t == take(cs, i) IN
    IF ~t.some THEN Panic(i)
    ELSE Lexed([k |-> "Null", span |-> Span_from_loc(t.loc)], t.idx)

HexEscapeSequence_peek(cs, i) == Verbatim_peek(<<LowerX>>, cs, i)

\* Self(LexT::lex(input)?, Lex::lex(input).unwrap_as_result()?)
HexEscapeSequence_lex(cs, i) ==
    LET x == Verbatim_lex(<<LowerX>>, cs, i) IN
    IF x.res # "Lexed" THEN x
    ELSE LET digits == unwrap_as_result(Lex(ExactlyT(2, <<"HexDigit">>), cs, x.idx)) IN
         IF digits.res # "Lexed" THEN digits
         ELSE Lexed([k |-> "HexEscapeSequence", digits |-> digits.tok,
                     span |-> derive_Spanned(<<x.tok, digits.tok>>)], digits.idx)

UnicodeEscapeSequence_peek(cs, i) == Verbatim_peek(<<LowerU>>, cs, i)

UnicodeEscapeSequence_lex(cs, i) ==
    LET u == Verbatim_lex(<<LowerU>>, cs, i) IN
    IF u.res # "Lexed" THEN u
    ELSE LET digits == unwrap_as_result(Lex(ExactlyT(4, <<"HexDigit">>), cs, u.idx)) IN
         IF digits.res # "Lexed" THEN digits
         ELSE Lexed([k |-> "UnicodeEscapeSequence", digits |-> digits.tok,
                     span |-> derive_Spanned(<<u.tok, digits.tok>>)], digits.idx)

EscapeSequence_peek(cs, i) ==
    \/ CharacterEscapeSequence_peek(cs, i)
    \/ Null_peek(cs, i)
    \/ HexEscapeSequence_peek(cs, i)
    \/ UnicodeEscapeSequence_peek(cs, i)

EscapeSequence_lex(cs, i) ==
    unwrap_as_result(
        or(map_variant(Lex(<<"CharacterEscapeSequence">>, cs, i),
                       "EscapeSequence", "CharacterEscapeSequence"),
        or(map_variant(Lex(<<"Null">>, cs, i), "EscapeSequence", "Null"),
        or(map_variant(Lex(<<"HexEscapeSequence">>, cs, i),
                       "EscapeSequence", "HexEscapeSequence"),
           map_variant(Lex(<<"UnicodeEscapeSequence">>, cs, i),
                       "EscapeSequence", "UnicodeEscapeSequence")))))

\* Character values (UTF-16 units).
Null_cv == encode_utf16(0)

SingleEscapeChar_cv(tok) ==
    encode_utf16(CASE tok.raw = SQ -> 39
                   [] tok.raw = DQ -> 34
                   [] tok.raw = BS -> 92
                   [] tok.raw = LowerB -> 8
                   [] tok.raw = LowerF -> 12
                   [] tok.raw = LowerN -> 10
                   [] tok.raw = LowerR -> 13
                   [] tok.raw = LowerT -> 9
                   [] tok.raw = LowerV -> 11)

NonEscapeChar_cv(tok) == encode_utf16(tok.raw)

CharacterEscapeSequence_cv(tok) ==
    CASE tok.variant = "Single" -> SingleEscapeChar_cv(tok.inner)
      [] tok.variant = "NonEscape" -> NonEscapeChar_cv(tok.inner)

\* buf[0] = self.1.mv() as u16
HexEscapeSequence_cv(tok) == <<wrap_u16(Exactly2_mv(tok.digits))>>

\* buf[0] = self.1.mv()
UnicodeEscapeSequence_cv(tok) == <<Exactly4_mv(tok.digits)>>

EscapeSequence_cv(tok) ==
    CASE tok.variant = "CharacterEscapeSequence" -> CharacterEscapeSequence_cv(tok.inner)
      [] tok.variant = "Null" -> Null_cv
      [] tok.variant = "HexEscapeSequence" -> HexEscapeSequence_cv(tok.inner)
      [] tok.variant = "UnicodeEscapeSequence" -> UnicodeEscapeSequence_cv(tok.inner)

(***************************************************************************)
(* String literals.                                                        *)
(***************************************************************************)
StringPartT(D) == <<"StringPart", D>>
StringCharT(D) == <<"StringChar", D>>

StringChar_peek_allow_newline(D, cs, i) ==
    /\ ~(upcoming_str(D, cs, i) \/ upcoming_str(<<BS>>, cs, i))
    /\ has_char(cs, i)

StringChar_peek(D, cs, i) ==
    /\ ~(\/ upcoming_str(D, cs, i)
         \/ upcoming_pred({c \in Nat : is_line_terminator(c)}, cs, i)
         \/ upcoming_str(<<BS>>, cs, i))
    /\ has_char(cs, i)

StringChar_lex(cs, i) ==
    LET t == take(cs, i) IN
    IF ~t.some THEN Panic(i)
    ELSE Lexed([k |-> "StringChar", raw |-> t.ch, span |-> Span_from_loc(t.loc)],
               t.idx)

StringPart_peek(D, cs, i) ==
    \/ StringChar_peek(D, cs, i)
    \/ Verbatim_peek(<<BS>>, cs, i)
    \/ Verbatim_peek(<<LS>>, cs, i)
    \/ Verbatim_peek(<<PS>>, cs, i)

\* The `\` branch of StringPart::lex: an escape sequence, else a line
\* continuation, else an error at the cursor.
StringPart_backslash(cs, i) ==
    LET backslash == Lex(V(<<BS>>), cs, i) IN
    IF backslash.res # "Lexed" THEN backslash
    ELSE LET esc == Lex(<<"EscapeSequence">>, cs, backslash.idx)
             lts == expected_msg(
                        Lex(<<"LineTerminatorSequence">>, cs, backslash.idx), cs)
         IN CASE esc.res = "Lexed" ->
                    Lexed([k |-> "StringPart", variant |-> "Escape",
                           inner |-> esc.tok,
                           span |-> derive_Spanned(<<backslash.tok, esc.tok>>)],
                          esc.idx)
              [] esc.res = "Nothing" ->
                    IF lts.res # "Lexed" THEN lts
                    ELSE Lexed([k |-> "StringPart", variant |-> "LineContinuation",
                                inner |-> lts.tok,
                                span |-> derive_Spanned(<<backslash.tok, lts.tok>>)],
                               lts.idx)
              [] OTHER -> esc

StringPart_lex(D, cs, i) ==
    unwrap_as_result(
        or(map_variant(Lex(V(<<LS>>), cs, i), "StringPart", "LS"),
        or(map_variant(Lex(V(<<PS>>), cs, i), "StringPart", "PS"),
        or(map_variant(Lex(StringCharT(D), cs, i), "StringPart", "Char"),
           StringPart_backslash(cs, i)))))

LString_peek(cs, i) == Verbatim_peek(<<DQ>>, cs, i) \/ Verbatim_peek(<<SQ>>, cs, i)

\* One arm of LString::lex: opening delimiter, contents, closing delimiter.
LString_arm(D, name, cs, i) ==
    LET opening == Lex(V(D), cs, i) IN
    IF opening.res # "Lexed" THEN opening
    ELSE LET contents == Lex(ManyT(StringPartT(D)), cs, opening.idx) IN
         IF contents.res # "Lexed" THEN contents
         ELSE LET closing == expected_msg(Lex(V(D), cs, contents.idx), cs) IN
              IF closing.res # "Lexed" THEN closing
              ELSE Lexed([k |-> "LString", variant |-> name,
                          contents |-> contents.tok,
                          span |-> derive_Spanned(
                              <<opening.tok, contents.tok, closing.tok>>)],
                         closing.idx)

LString_lex(cs, i) ==
    unwrap_as_result(
        or(LString_arm(<<DQ>>, "Double", cs, i),
           LString_arm(<<SQ>>, "Single", cs, i)))

StringChar_cv(tok) == encode_utf16(tok.raw)

\* A StringPart::cv whose line continuation keeps a line feed.
StringPart_cv_keep_newline(tok) ==
    CASE tok.variant = "Char" -> StringChar_cv(tok.inner)
      [] tok.variant = "Escape" -> EscapeSequence_cv(tok.inner)
      [] tok.variant = "LineContinuation" -> encode_utf16(LF)
      [] tok.variant = "LS" -> encode_utf16(LS)
      [] tok.variant = "PS" -> encode_utf16(PS)

StringPart_cv(tok) ==
    CASE tok.variant = "Char" -> StringChar_cv(tok.inner)
      [] tok.variant = "Escape" -> EscapeSequence_cv(tok.inner)
      [] tok.variant = "LineContinuation" -> <<>>
      [] tok.variant = "LS" -> encode_utf16(LS)
      [] tok.variant = "PS" -> encode_utf16(PS)

\* collect_cv_into_utf16 over string parts.
RECURSIVE collect_cv_into_utf16(_)
collect_cv_into_utf16(parts) ==
    IF Len(parts) = 0 THEN <<>>
    ELSE StringPart_cv(Head(parts)) \o collect_cv_into_utf16(Tail(parts))

\* StringValue for Many<StringPart<D>>.
Many_StringPart_sv(tok) == collect_cv_into_utf16(tok.elems)

LString_sv(tok) == Many_StringPart_sv(tok.contents)

(***************************************************************************)
(* White space, punctuators, comments.                                     *)
(***************************************************************************)
is_whitespace(c) ==
    \/ c \in {TAB, VT, FF, SP, NBSP, BOM}
    \/ get_minor_category(c) = "Zs"

WhiteSpace_peek(cs, i) == upcoming_pred({c \in Nat : is_whitespace(c)}, cs, i)

WhiteSpace_lex(cs, i) ==
    LET t == take_while({c \in Nat : is_whitespace(c)}, cs, i) IN
    IF ~t.some THEN Panic(i)
    ELSE Lexed([k |-> "WhiteSpace", span |-> t.span], t.idx)

Punctuator_peek(cs, i) ==
    \/ Verbatim_peek(<<LBRACE>>, cs, i)
    \/ Verbatim_peek(<<RBRACE>>, cs, i)
    \/ Verbatim_peek(<<LBRACKET>>, cs, i)
    \/ Verbatim_peek(<<RBRACKET>>, cs, i)
    \/ Verbatim_peek(<<COLON>>, cs, i)
    \/ Verbatim_peek(<<COMMA>>, cs, i)

Punctuator_lex(cs, i) ==
    unwrap_as_result(
        or(map_variant(Lex(V(<<LBRACE>>), cs, i), "Punctuator", "OpenBrace"),
        or(map_variant(Lex(V(<<RBRACE>>), cs, i), "Punctuator", "CloseBrace"),
        or(map_variant(Lex(V(<<LBRACKET>>), cs, i), "Punctuator", "OpenBracket"),
        or(map_variant(Lex(V(<<RBRACKET>>), cs, i), "Punctuator", "CloseBracket"),
        or(map_variant(Lex(V(<<COLON>>), cs, i), "Punctuator", "Colon"),
           map_variant(Lex(V(<<COMMA>>), cs, i), "Punctuator", "Comma")))))))

SingleLineComment_peek(cs, i) == upcoming_str(<<SLASH, SLASH>>, cs, i)

SingleLineComment_lex(cs, i) ==
    LET double_slash == Verbatim_lex(<<SLASH, SLASH>>, cs, i) IN
    IF double_slash.res # "Lexed" THEN double_slash
    ELSE LET t == take_until(<<"LineTerminator">>, cs, double_slash.idx)
             contents == IF t.some THEN t.span ELSE Span_empty
         IN Lexed([k |-> "SingleLineComment",
                   span |-> Span_combine(double_slash.tok.span, <<contents>>),
                   inner |-> contents], t.idx)

MultiLineComment_peek(cs, i) == upcoming_str(<<SLASH, STAR>>, cs, i)

MultiLineComment_lex(cs, i) ==
    LET opening == Verbatim_lex(<<SLASH, STAR>>, cs, i) IN
    IF opening.res # "Lexed" THEN opening
    ELSE LET t == take_until(V(<<STAR, SLASH>>), cs, opening.idx)
             contents == IF t.some THEN t.span ELSE Span_empty
         IN Lexed([k |-> "MultiLineComment",
                   span |-> Span_combine(opening.tok.span, <<contents>>),
                   inner |-> contents], t.idx)

Comment_peek(cs, i) == SingleLineComment_peek(cs, i) \/ MultiLineComment_peek(cs, i)

Comment_lex(cs, i) ==
    unwrap_as_result(
        or(map_variant(Lex(<<"SingleLineComment">>, cs, i), "Comment", "Single"),
           map_variant(Lex(<<"MultiLineComment">>, cs, i), "Comment", "Multi")))

(***************************************************************************)
(* Identifiers.                                                            *)
(***************************************************************************)
UnicodeLetter == MinorT({"Lu", "Ll", "Lt", "Lm", "Lo", "Nl"})
UnicodeCombiningMark == MinorT({"Mn", "Mc"})
UnicodeDigit == MinorT({"Nd"})
UnicodeConnectorPunctuation == MinorT({"Pc"})

\* CharacterAcceptor for IdentifierStart.
IdentifierStart_accepts(c) ==
    \/ get_minor_category(c) \in {"Lu", "Ll", "Lt", "Lm", "Lo", "Nl"}
    \/ c = DOLLAR
    \/ c = UNDERSCORE

\* CharacterAcceptor for IdentifierPart.
IdentifierPart_accepts(c) ==
    \/ IdentifierStart_accepts(c)
    \/ get_minor_category(c) \in {"Mn", "Mc", "Nd", "Pc"}
    \/ c = ZWNJ
    \/ c = ZWJ

\* T::accepts for T: CharacterAcceptor, T named by its kind.
CharacterAcceptor_accepts(kind, c) ==
    IF kind = "IdentifierStart" THEN IdentifierStart_accepts(c)
    ELSE IdentifierPart_accepts(c)

\* check_unicode_escape: the error message formats ch.unwrap(), which panics
\* when the escape's value is no character (an unpaired surrogate).
check_unicode_escape(kind, backslash, escape, i) ==
    LET ch == try_as_char(UnicodeEscapeSequence_cv(escape)) IN
    IF ~(IF ch.some THEN CharacterAcceptor_accepts(kind, ch.ch) ELSE FALSE)
    THEN IF ch.some
         THEN Errant(Span_combine(backslash.span, <<escape.span>>), i)
         ELSE Panic(i)
    ELSE Lexed([k |-> kind, variant |-> "Escape", inner |-> escape,
                span |-> derive_Spanned(<<backslash, escape>>)], i)

\* The `\` branch shared by IdentifierStart::lex and IdentifierPart::lex.
identifier_escape(kind, cs, i) ==
    LET backslash == Lex(V(<<BS>>), cs, i) IN
    IF backslash.res # "Lexed" THEN backslash
    ELSE LET escape == expected_msg(
                 Lex(<<"UnicodeEscapeSequence">>, cs, backslash.idx), cs) IN
         IF escape.res # "Lexed" THEN escape
         ELSE check_unicode_escape(kind, backslash.tok, escape.tok,
                                   escape.idx)

IdentifierStart_peek(cs, i) ==
    \/ MatchMinorCategory_peek(UnicodeLetter[2], cs, i)
    \/ Verbatim_peek(<<DOLLAR>>, cs, i)
    \/ Verbatim_peek(<<UNDERSCORE>>, cs, i)
    \/ Verbatim_peek(<<BS>>, cs, i)

IdentifierStart_lex(cs, i) ==
    unwrap_as_result(
        or(map_variant(Lex(UnicodeLetter, cs, i), "IdentifierStart", "Letter"),
        or(map_variant(Lex(V(<<DOLLAR>>), cs, i), "IdentifierStart", "Dollar"),
        or(map_variant(Lex(V(<<UNDERSCORE>>), cs, i), "IdentifierStart", "Underscore"),
           identifier_escape("IdentifierStart", cs, i)))))

IdentifierPart_peek(cs, i) ==
    \/ IdentifierStart_peek(cs, i)
    \/ MatchMinorCategory_peek(UnicodeCombiningMark[2], cs, i)
    \/ MatchMinorCategory_peek(UnicodeDigit[2], cs, i)
    \/ MatchMinorCategory_peek(UnicodeConnectorPunctuation[2], cs, i)
    \/ Verbatim_peek(<<ZWNJ>>, cs, i)
    \/ Verbatim_peek(<<ZWJ>>, cs, i)

IdentifierPart_lex(cs, i) ==
    unwrap_as_result(
        or(identifier_escape("IdentifierPart", cs, i),
        or(map_variant(Lex(<<"IdentifierStart">>, cs, i), "IdentifierPart", "Start"),
        or(map_variant(Lex(UnicodeCombiningMark, cs, i),
                       "IdentifierPart", "CombiningMark"),
        or(map_variant(Lex(UnicodeDigit, cs, i), "IdentifierPart", "Digit"),
        or(map_variant(Lex(UnicodeConnectorPunctuation, cs, i),
                       "IdentifierPart", "ConnectorPunctuation"),
        or(map_variant(Lex(V(<<ZWNJ>>), cs, i), "IdentifierPart", "ZWNJ"),
           map_variant(Lex(V(<<ZWJ>>), cs, i), "IdentifierPart", "ZWJ"))))))))

IdentifierName_peek(cs, i) == IdentifierStart_peek(cs, i)

IdentifierName_lex(cs, i) ==
    LET start == IdentifierStart_lex(cs, i) IN
    IF start.res # "Lexed" THEN start
    ELSE LET after == unwrap_as_result(
                 Lex(ManyT(<<"IdentifierPart">>), cs, start.idx)) IN
         IF after.res # "Lexed" THEN after
         ELSE Lexed([k |-> "IdentifierName", start |-> start.tok,
                     after |-> after.tok,
                     span |-> derive_Spanned(<<start.tok, after.tok>>)], after.idx)

Identifier_peek(cs, i) == IdentifierName_peek(cs, i)

Identifier_lex(cs, i) ==
    LET name == IdentifierName_lex(cs, i) IN
    IF name.res # "Lexed" THEN name
    ELSE Lexed([k |-> "Identifier", inner |-> name.tok, span |-> name.tok.span],
               name.idx)

(***************************************************************************)
(* The Lex contract: LexT (peek, lex) and the blanket Lex implementation.  *)
(***************************************************************************)
\* <T as LexT>::peek.
LexT_peek(T, cs, i) ==
    CASE T[1] = "Verbatim" -> Verbatim_peek(T[2], cs, i)
      [] T[1] = "CharPattern" -> CharPattern_peek(T[2], T[3], cs, i)
      [] T[1] = "MatchMinorCategory" -> MatchMinorCategory_peek(T[2], cs, i)
      [] T[1] = "HexDigit" -> HexDigit_peek(cs, i)
      [] T[1] = "LineTerminator" -> LineTerminator_peek(cs, i)
      [] T[1] = "LineTerminatorSequence" -> LineTerminatorSequence_peek(cs, i)
      [] T[1] = "SingleEscapeChar" -> SingleEscapeChar_peek(cs, i)
      [] T[1] = "NonEscapeChar" -> NonEscapeChar_peek(cs, i)
      [] T[1] = "CharacterEscapeSequence" -> CharacterEscapeSequence_peek(cs, i)
      [] T[1] = "Null" -> Null_peek(cs, i)
      [] T[1] = "HexEscapeSequence" -> HexEscapeSequence_peek(cs, i)
      [] T[1] = "UnicodeEscapeSequence" -> UnicodeEscapeSequence_peek(cs, i)
      [] T[1] = "EscapeSequence" -> EscapeSequence_peek(cs, i)
      [] T[1] = "StringChar" -> StringChar_peek(T[2], cs, i)
      [] T[1] = "StringPart" -> StringPart_peek(T[2], cs, i)
      [] T[1] = "LString" -> LString_peek(cs, i)
      [] T[1] = "WhiteSpace" -> WhiteSpace_peek(cs, i)
      [] T[1] = "Punctuator" -> Punctuator_peek(cs, i)
      [] T[1] = "SingleLineComment" -> SingleLineComment_peek(cs, i)
      [] T[1] = "MultiLineComment" -> MultiLineComment_peek(cs, i)
      [] T[1] = "Comment" -> Comment_peek(cs, i)
      [] T[1] = "IdentifierStart" -> IdentifierStart_peek(cs, i)
      [] T[1] = "IdentifierPart" -> IdentifierPart_peek(cs, i)
      [] T[1] = "IdentifierName" -> IdentifierName_peek(cs, i)
      [] T[1] = "Identifier" -> Identifier_peek(cs, i)

\* <T as LexT>::lex: Ok is Lexed, Err is Errant.
LexT_lex(T, cs, i) ==
    CASE T[1] = "Verbatim" -> Verbatim_lex(T[2], cs, i)
      [] T[1] = "CharPattern" -> CharPattern_lex(cs, i)
      [] T[1] = "MatchMinorCategory" -> MatchMinorCategory_lex(cs, i)
      [] T[1] = "HexDigit" -> HexDigit_lex(cs, i)
      [] T[1] = "LineTerminator" -> LineTerminator_lex(cs, i)
      [] T[1] = "LineTerminatorSequence" -> LineTerminatorSequence_lex(cs, i)
      [] T[1] = "SingleEscapeChar" -> SingleEscapeChar_lex(cs, i)
      [] T[1] = "NonEscapeChar" -> NonEscapeChar_lex(cs, i)
      [] T[1] = "CharacterEscapeSequence" -> CharacterEscapeSequence_lex(cs, i)
      [] T[1] = "Null" -> Null_lex(cs, i)
      [] T[1] = "HexEscapeSequence" -> HexEscapeSequence_lex(cs, i)
      [] T[1] = "UnicodeEscapeSequence" -> UnicodeEscapeSequence_lex(cs, i)
      [] T[1] = "EscapeSequence" -> EscapeSequence_lex(cs, i)
      [] T[1] = "StringChar" -> StringChar_lex(cs, i)
      [] T[1] = "StringPart" -> StringPart_lex(T[2], cs, i)
      [] T[1] = "LString" -> LString_lex(cs, i)
      [] T[1] = "WhiteSpace" -> WhiteSpace_lex(cs, i)
      [] T[1] = "Punctuator" -> Punctuator_lex(cs, i)
      [] T[1] = "SingleLineComment" -> SingleLineComment_lex(cs, i)
      [] T[1] = "MultiLineComment" -> MultiLineComment_lex(cs, i)
      [] T[1] = "Comment" -> Comment_lex(cs, i)
      [] T[1] = "IdentifierStart" -> IdentifierStart_lex(cs, i)
      [] T[1] = "IdentifierPart" -> IdentifierPart_lex(cs, i)
      [] T[1] = "IdentifierName" -> IdentifierName_lex(cs, i)
      [] T[1] = "Identifier" -> Identifier_lex(cs, i)

\* A then_lex that runs LexT::lex whatever the peek said.
then_lex_unguarded(possible, T, cs, i) == LexT_lex(T, cs, i)

\* Peek::then_lex: Possible runs LexT::lex, Absent is Nothing.
then_lex(possible, T, cs, i) ==
    IF possible THEN LexT_lex(T, cs, i) ELSE Nothing(i)

\* Lex::peek: the blanket implementation for LexT types; Many is always
\* Possible; AtLeast and Exactly peek their element unless N = 0.
Lex_peek(T, cs, i) ==
    CASE T[1] = "Many" -> TRUE
      [] T[1] \in {"AtLeast", "Exactly"} ->
            IF T[2] = 0 THEN TRUE ELSE LexT_peek(T[3], cs, i)
      [] OTHER -> LexT_peek(T, cs, i)

\* Lex::lex: Self::peek(input).then_lex(input) for LexT types.
Lex(T, cs, i) ==
    CASE T[1] = "Many" -> Many_lex(T[2], cs, i)
      [] T[1] = "AtLeast" -> AtLeast_lex(T[2], T[3], cs, i)
      [] T[1] = "Exactly" -> Exactly_lex(T[2], T[3], cs, i)
      [] OTHER -> then_lex(LexT_peek(T, cs, i), T, cs, i)

(***************************************************************************)
(* The state machine: a caller holding one SourceStream over a source and  *)
(* calling SourceStream::lex::<L>() for token types L, one call per step.  *)
(***************************************************************************)
\* The token types with a LexT implementation a caller lexes.
LexTTypes ==
    { <<"WhiteSpace">>, <<"LineTerminatorSequence">>, <<"Punctuator">>,
      <<"LString">>, <<"Identifier">>, <<"SingleLineComment">>,
      <<"MultiLineComment">>, <<"IdentifierStart">>, <<"HexDigit">>,
      StringPartT(<<DQ>>), CharPatternT(LowerA, LowerF + 1) }

\* The quantified types: Lex is implemented directly, not through LexT.
QuantTypes ==
    { ManyT(<<"HexDigit">>), ManyT(StringPartT(<<DQ>>)),
      AtLeastT(1, <<"HexDigit">>), ExactlyT(2, <<"HexDigit">>) }

Alphabet == {DQ, BS, LowerA, COMMA, LF, SLASH, STAR, SP}

\* SourceStream::new: the cursor at 0; no lex call yet.  had_errant is
\* history: some earlier lex call on this stream has returned Errant.
NoCall == [op |-> <<"new">>, start |-> 0, had_errant |-> FALSE, r |-> Nothing(0)]

\* Some lex call on the stream, the last included, has returned Errant.
errant == last.had_errant \/ last.r.res = "Errant"

InitOn(sources) ==
    /\ chars \in sources
    /\ index = 0
    /\ last = NoCall

\* SourceStream::lex::<T>(): the call's result and the cursor it leaves.
\* A panic ends the program.
StreamLex(T) ==
    /\ last.r.res # "Panic"
    /\ LET r == Lex(T, chars, index) IN
       /\ index' = r.idx
       /\ last' = [op |-> T, start |-> index, had_errant |-> errant, r |-> r]
    /\ UNCHANGED chars

LexToken == \E T \in LexTTypes : StreamLex(T)

LexQuantified == \E T \in QuantTypes : StreamLex(T)

Init == InitOn(SeqsUpTo(Alphabet, MaxLen))

Next == LexToken \/ LexQuantified

Spec == Init /\ [][Next]_vars

(***************************************************************************)
(* Properties of the Lex contract.                                         *)
(***************************************************************************)
\* The last call was a lex of a LexT type through the blanket Lex.
LastIsLexT == last.op[1] \notin {"new", "Many", "AtLeast", "Exactly"}

\* C1: for a LexT type lexed through the blanket Lex implementation, when
\* peek is false at the cursor the lex call returns Nothing and leaves the
\* cursor where it was.
C1_PeekFalseIsNothing ==
    (LastIsLexT /\ ~LexT_peek(last.op, chars, last.start))
        => (last.r.res = "Nothing" /\ index = last.start)

\* C1 witness: a string literal was lexed past the start of the source at a
\* character that is no quote, and the call returned Nothing.
C1_Witness ==
    /\ last.op = <<"LString">>
    /\ last.start > 0
    /\ has_char(chars, last.start)
    /\ ~LexT_peek(last.op, chars, last.start)
    /\ last.r.res = "Nothing"

\* C2: for AtLeast<N, T> and Exactly<N, T> with N >= 1, when peek is Absent
\* at the cursor the lex call returns Nothing without advancing the cursor.
C2_QuantifierAbsentIsNothing ==
    (/\ last.op[1] \in {"AtLeast", "Exactly"}
     /\ last.op[2] >= 1
     /\ ~Lex_peek(last.op, chars, last.start))
        => (last.r.res = "Nothing" /\ index = last.start)

\* The tokens whose span the cursor contract is stated for.
SpannedTokens ==
    { <<"WhiteSpace">>, <<"LineTerminatorSequence">>, <<"Punctuator">>,
      <<"LString">>, <<"Identifier">>, <<"SingleLineComment">>,
      <<"MultiLineComment">> }

\* C3: for each of these tokens, a Lexed token's span starts at the cursor
\* before the call and the cursor after the call is the span's end; after
\* Nothing the cursor is unchanged.
C3_SpanIsConsumedRange ==
    last.op \in SpannedTokens =>
        /\ last.r.res = "Lexed" =>
              /\ last.r.tok.span.start = last.start
              /\ index = last.r.tok.span.end
        /\ last.r.res = "Nothing" => index = last.start

RECURSIVE ElementsEnd(_, _, _)
ElementsEnd(T, cs, i) ==
    LET r == Lex(T, cs, i) IN
    IF r.res = "Lexed" /\ r.idx > i THEN ElementsEnd(T, cs, r.idx) ELSE i

\* The element type of a quantified type.
ElementOf(T) == IF T[1] = "Many" THEN T[2] ELSE T[3]

\* The Errant of the element after the run of Lexed elements, if it is one.
ElementAfterRun ==
    Lex(ElementOf(last.op), chars,
        ElementsEnd(ElementOf(last.op), chars, last.start))

C5_ErrorSpanInBounds ==
    last.r.res = "Errant" =>
        /\ in_bounds(chars, last.r.err)
        /\ last.r.err.start <= last.r.err.end

(***************************************************************************)
(* Escape sequences in strings and identifiers: sources over `\`, `x`,     *)
(* `u` and the hex digits `2` and `D`.                                     *)
(***************************************************************************)
EscAlphabet == {BS, LowerX, LowerU, Digit2, UpperD}

EscTokenTypes ==
    { <<"HexEscapeSequence">>, <<"UnicodeEscapeSequence">>,
      <<"EscapeSequence">>, StringPartT(<<DQ>>),
      <<"IdentifierStart">>, <<"IdentifierPart">> }

EscQuantTypes == { ManyT(StringPartT(<<DQ>>)), ExactlyT(2, <<"HexDigit">>) }

\* The sources: `\`, any character, then hex digits and `u`.
EscSources ==
    { s \in SeqsUpTo(EscAlphabet, MaxEscLen) :
        /\ Len(s) >= 1 => s[1] = BS
        /\ \A k \in 3..Len(s) : s[k] \in {Digit2, UpperD, LowerU} }

InitEsc == InitOn(EscSources)

LexEscToken == \E T \in EscTokenTypes : StreamLex(T)

LexEscQuantified == \E T \in EscQuantTypes : StreamLex(T)

NextEsc == LexEscToken \/ LexEscQuantified

SpecEsc == InitEsc /\ [][NextEsc]_vars

\* The value of a hex digit character, and of the n hex digits at cs[i + 1 ..].
HexVal(c) ==
    IF c <= Digit9 THEN c - Digit0
    ELSE IF c <= UpperF THEN c - UpperA + 10
    ELSE c - LowerA + 10

RECURSIVE HexNumber(_, _, _)
HexNumber(cs, i, n) ==
    IF n = 0 THEN 0
    ELSE HexNumber(cs, i, n - 1) * 16 + HexVal(cs[i + n])

\* n hex digits stand at cs[i + 1 .. i + n].
HexDigitsAt(cs, i, n) ==
    /\ i + n <= Len(cs)
    /\ \A k \in 1..n : is_ascii_hexdigit(cs[i + k])

\* `\` m and then n hex digits stand at the cursor position i.
EscapeAt(m, n, cs, i) ==
    /\ upcoming_str(<<BS, m>>, cs, i)
    /\ HexDigitsAt(cs, i + 2, n)

\* The characters an escape may denote at the start of an identifier and
\* after it; a surrogate code point is no character.
StartOK(v) ==
    /\ ~is_surrogate(v)
    /\ \/ v \in UNION {MinorCategoryTable[cat] : cat \in {"Lu", "Ll", "Lm", "Lo"}}
       \/ v \in {DOLLAR, UNDERSCORE}

PartOK(v) ==
    /\ ~is_surrogate(v)
    /\ \/ StartOK(v)
       \/ v \in UNION {MinorCategoryTable[cat] : cat \in {"Mn", "Nd", "Pc"}}
       \/ v \in {ZWNJ, ZWJ}

PositionOK(T, v) == IF T = <<"IdentifierStart">> THEN StartOK(v) ELSE PartOK(v)

\* C6: at an identifier position, `\u` and four hex digits that do not decode
\* to a character accepted there (a lone surrogate D800..DFFF included) is
\* Errant with the span from the backslash through the fourth digit; the
\* lexer does not panic.
C6_BadEscapeIsErrant ==
    (/\ last.op \in {<<"IdentifierStart">>, <<"IdentifierPart">>}
     /\ EscapeAt(LowerU, 4, chars, last.start)
     /\ ~HexDigitsAt(chars, last.start + 6, 1)
     /\ ~PositionOK(last.op, HexNumber(chars, last.start + 2, 4)))
        => /\ last.r.res = "Errant"
           /\ last.r.err = Span(last.start, last.start + 6)

\* C8: inside a string, `\x` consumes exactly two hex digits and `\u` exactly
\* four; what follows, hex digits included, is ordinary string characters.
C8_EscapeLengthIsFixed ==
    /\ (last.op = StringPartT(<<DQ>>) /\ EscapeAt(LowerX, 2, chars, last.start))
        => (last.r.res = "Lexed" /\ index = last.start + 4)
    /\ (last.op = StringPartT(<<DQ>>) /\ EscapeAt(LowerU, 4, chars, last.start))
        => (last.r.res = "Lexed" /\ index = last.start + 6)

\* C9: the character value of a lexed hex escape is 16*d1 + d0 and that of a
\* unicode escape 4096*d3 + 256*d2 + 16*d1 + d0, without overflow in u8 and
\* u16; a string part that is such an escape has exactly that one unit as its
\* character value, a surrogate half included.
C9_EscapeValue ==
    /\ (last.op = <<"HexEscapeSequence">> /\ last.r.res = "Lexed")
        => /\ HexEscapeSequence_cv(last.r.tok)
                = <<HexNumber(chars, last.start + 1, 2)>>
           /\ HexNumber(chars, last.start + 1, 2) < 256
    /\ (last.op = <<"UnicodeEscapeSequence">> /\ last.r.res = "Lexed")
        => /\ UnicodeEscapeSequence_cv(last.r.tok)
                = <<HexNumber(chars, last.start + 1, 4)>>
           /\ HexNumber(chars, last.start + 1, 4) < 65536
    /\ (/\ last.op = StringPartT(<<DQ>>)
        /\ last.r.res = "Lexed"
        /\ upcoming_str(<<BS, LowerX>>, chars, last.start))
        => StringPart_cv(last.r.tok) = <<HexNumber(chars, last.start + 2, 2)>>
    /\ (/\ last.op = StringPartT(<<DQ>>)
        /\ last.r.res = "Lexed"
        /\ upcoming_str(<<BS, LowerU>>, chars, last.start))
        => StringPart_cv(last.r.tok) = <<HexNumber(chars, last.start + 2, 4)>>
    /\ (/\ last.op = ManyT(StringPartT(<<DQ>>))
        /\ last.r.res = "Lexed"
        /\ last.start = 0
        /\ Len(chars) = 6
        /\ upcoming_str(<<BS, LowerU>>, chars, 0))
        => Many_StringPart_sv(last.r.tok) = <<HexNumber(chars, 2, 4)>>

\* C9 witness: a string part `\uDD..` was lexed and its value is a lone low
\* surrogate, two digits of which exceed a u8.
C9_Witness ==
    /\ last.op = StringPartT(<<DQ>>)
    /\ last.r.res = "Lexed"
    /\ upcoming_str(<<BS, LowerU, UpperD, UpperD>>, chars, last.start)
    /\ is_surrogate(StringPart_cv(last.r.tok)[1])
    /\ Len(StringPart_cv(last.r.tok)) = 1

(***************************************************************************)
(* Identifiers with escapes: sources over `\`, `u` and the digits `0`, `3`.*)
(* U+3033 is a letter (Lm), U+0030 and U+0033 are digits (Nd), U+0300 is a *)
(* mark (Mn), U+3000 a space (Zs).                                         *)
(***************************************************************************)
IdAlphabet == {BS, LowerU, Digit0, Digit3}

\* The sources: at most one leading `u`, then `\` and a tail without `\`.
IdSources ==
    { s \in SeqsUpTo(IdAlphabet, MaxIdLen) :
        /\ \A k \in 1..Len(s) : s[k] = BS => k <= 2
        /\ \A k \in 1..Len(s) : s[k] \in {Digit0, Digit3} => k >= 3
        /\ Len(s) >= 2 => (s[1] = BS \/ s[2] = BS) }

InitIdent == InitOn(IdSources)

LexIdentToken ==
    \E T \in {<<"IdentifierStart">>, <<"IdentifierPart">>,
              <<"IdentifierName">>, <<"Identifier">>} : StreamLex(T)

LexIdentQuantified == StreamLex(ManyT(<<"IdentifierPart">>))

NextIdent == LexIdentToken \/ LexIdentQuantified

SpecIdent == InitIdent /\ [][NextIdent]_vars

\* The escapes among the parts of a lexed IdentifierName satisfy the rule for
\* a later element.
PartEscapesOK(name) ==
    \A n \in 1..Len(name.after.elems) :
        name.after.elems[n].variant = "Escape"
            => PartOK(HexNumber(chars, name.after.elems[n].span.start + 2, 4))

\* C7: in every lexed IdentifierName a `\u` escape that is the first element
\* decodes to a letter (Lu, Ll, Lt, Lm, Lo, Nl), `$` or `_`, and one that is a
\* later element may also decode to Mn, Mc, Nd, Pc, U+200C or U+200D;
\* conversely an escape whose character is in the set for its position is
\* accepted.
C7_EscapePositionRule ==
    /\ (/\ last.op \in {<<"IdentifierStart">>, <<"IdentifierPart">>}
        /\ last.r.res = "Lexed"
        /\ last.r.tok.variant = "Escape")
        => PositionOK(last.op, HexNumber(chars, last.start + 2, 4))
    /\ (last.op = <<"IdentifierName">> /\ last.r.res = "Lexed")
        => /\ last.r.tok.start.variant = "Escape"
                => StartOK(HexNumber(chars, last.start + 2, 4))
           /\ PartEscapesOK(last.r.tok)
    /\ (/\ last.op \in {<<"IdentifierStart">>, <<"IdentifierPart">>}
        /\ EscapeAt(LowerU, 4, chars, last.start)
        /\ PositionOK(last.op, HexNumber(chars, last.start + 2, 4)))
        => (last.r.res = "Lexed" /\ index = last.start + 6)

(***************************************************************************)
(* String values: double-quoted sources over `"`, `'`, `\`, CR, LF, LS, `n` *)
(* and U+1F4A9, a character outside the BMP.                               *)
(***************************************************************************)
StrAlphabet == {DQ, SQ, BS, CR, LF, LS, LowerN, POO}

\* The sources: an opening `"` and then any characters.
StrSources ==
    { s \in SeqsUpTo(StrAlphabet, MaxStrLen) : Len(s) >= 1 => s[1] = DQ }

InitStr == InitOn(StrSources)

LexStrToken == \E T \in {<<"LString">>, V(<<DQ>>)} : StreamLex(T)

LexStrQuantified == StreamLex(ManyT(StringPartT(<<DQ>>)))

NextStr == LexStrToken \/ LexStrQuantified

SpecStr == InitStr /\ [][NextStr]_vars

\* The UTF-16 encoding of a source character of StrAlphabet, as a table.
Utf16Of(c) == IF c = POO THEN <<55357, 56489>> ELSE <<c>>

\* The units an escaped character of StrAlphabet stands for.
EscapedUnits(c) ==
    CASE c = LowerN -> <<10>>
      [] c = BS -> <<92>>
      [] c = DQ -> <<34>>
      [] OTHER -> Utf16Of(c)

\* The string value read off the source text cs[i + 1 .. j] between the
\* delimiters: characters by their encoding, escapes by their value, line
\* continuations (CR LF as one) by nothing.
RECURSIVE SourceSV(_, _, _)
SourceSV(cs, i, j) ==
    IF i >= j THEN <<>>
    ELSE IF cs[i + 1] # BS THEN Utf16Of(cs[i + 1]) \o SourceSV(cs, i + 1, j)
    ELSE IF cs[i + 2] = CR /\ i + 2 < j /\ cs[i + 3] = LF
         THEN SourceSV(cs, i + 3, j)
    ELSE IF cs[i + 2] \in {LF, CR, LS, PS} THEN SourceSV(cs, i + 2, j)
    ELSE EscapedUnits(cs[i + 2]) \o SourceSV(cs, i + 2, j)

\* C10: the string value of a string literal is the concatenation, in source
\* order, of the UTF-16 units of its parts: a character, LS or PS gives its
\* own encoding (a surrogate pair outside the BMP), an escape its character
\* value, a line continuation (CR LF as one) nothing, the delimiters nothing.
C10_StringValue ==
    (last.op = <<"LString">> /\ last.r.res = "Lexed")
        => LString_sv(last.r.tok) = SourceSV(chars, last.start + 1, index - 1)

\* C10 witness: the literal holding only a CR LF line continuation was
\* lexed to its closing quote; its value is empty.
C10_Witness ==
    /\ chars = <<DQ, BS, CR, LF, DQ>>
    /\ last.op = <<"LString">>
    /\ last.r.res = "Lexed"
    /\ index = 5
    /\ LString_sv(last.r.tok) = <<>>

\* The position of the first `"` at or after k that is neither escaped nor
\* behind an unescaped LF or CR, read off the source text; -1 when the end
\* of input or an unescaped LF or CR comes first.
RECURSIVE ClosingQuote(_, _)
ClosingQuote(cs, k) ==
    IF k >= Len(cs) THEN -1
    ELSE IF cs[k + 1] = DQ THEN k
    ELSE IF cs[k + 1] \in {LF, CR} THEN -1
    ELSE IF cs[k + 1] # BS THEN ClosingQuote(cs, k + 1)
    ELSE IF k + 1 >= Len(cs) THEN -1
    ELSE IF cs[k + 2] = CR /\ k + 2 < Len(cs) /\ cs[k + 3] = LF
         THEN ClosingQuote(cs, k + 3)
    ELSE ClosingQuote(cs, k + 2)

\* C11: LString lex on a literal opened by `"` is Errant whenever the end of
\* input or an unescaped LF or CR comes before the closing `"`; when it
\* lexes, it ends right after the first unescaped `"`, so neither `'` nor an
\* escaped `"` closes the literal.
C11_UnterminatedIsErrant ==
    (/\ last.op = <<"LString">>
     /\ upcoming_str(<<DQ>>, chars, last.start))
        => /\ ClosingQuote(chars, last.start + 1) = -1 => last.r.res = "Errant"
           /\ last.r.res = "Lexed" => index = ClosingQuote(chars, last.start + 1) + 1

\* C11 witness: after the opening `"` come `'` and an escaped `"` and then
\* the end of input; the literal is Errant.
C11_Witness ==
    /\ chars = <<DQ, SQ, BS, DQ>>
    /\ last.op = <<"LString">>
    /\ last.start = 0
    /\ last.r.res = "Errant"

(***************************************************************************)
(* Octal-style escapes: double-quoted sources over `"`, `\`, `0`, `9` and   *)
(* `a`.                                                                    *)
(***************************************************************************)
OctSources ==
    { s \in SeqsUpTo({DQ, BS, Digit0, Digit9, LowerA}, MaxStrLen) :
        Len(s) >= 1 => s[1] = DQ }

InitOct == InitOn(OctSources)

NextOct ==
    \E T \in {<<"LString">>, <<"Null">>, StringPartT(<<DQ>>), V(<<DQ>>), V(<<BS>>),
              ManyT(StringPartT(<<DQ>>))} :
        StreamLex(T)

SpecOct == InitOct /\ [][NextOct]_vars

IsDecimalDigit(c) == Digit0 <= c /\ c <= Digit9

\* cs has an unescaped `\` followed by a digit 1-9, or by `0` and a decimal
\* digit, at or after k and before the first unescaped `"`.
RECURSIVE OctalEscapeBefore(_, _)
OctalEscapeBefore(cs, k) ==
    IF k >= Len(cs) \/ cs[k + 1] = DQ THEN FALSE
    ELSE IF cs[k + 1] # BS THEN OctalEscapeBefore(cs, k + 1)
    ELSE IF k + 1 >= Len(cs) THEN FALSE
    ELSE IF IsDecimalDigit(cs[k + 2]) /\ cs[k + 2] # Digit0 THEN TRUE
    ELSE IF cs[k + 2] = Digit0 /\ k + 2 < Len(cs) /\ IsDecimalDigit(cs[k + 3])
         THEN TRUE
    ELSE OctalEscapeBefore(cs, k + 2)

\* C12: a string literal holding `\` and a digit 1-9, or `\0` and a decimal
\* digit, is Errant; `\0` not followed by a decimal digit is the Null escape
\* with character value U+0000; Null lex on `0` followed by a decimal digit
\* is Nothing.
C12_OctalRejected ==
    /\ (/\ last.op = <<"LString">>
        /\ upcoming_str(<<DQ>>, chars, last.start)
        /\ OctalEscapeBefore(chars, last.start + 1))
            => last.r.res = "Errant"
    /\ (/\ last.op = StringPartT(<<DQ>>)
        /\ upcoming_str(<<BS, Digit0>>, chars, last.start)
        /\ ~(/\ last.start + 2 < Len(chars)
             /\ IsDecimalDigit(chars[last.start + 3])))
            => /\ last.r.res = "Lexed"
               /\ index = last.start + 2
               /\ last.r.tok.variant = "Escape"
               /\ last.r.tok.inner.variant = "Null"
               /\ StringPart_cv(last.r.tok) = <<0>>
    /\ (/\ last.op = <<"Null">>
        /\ upcoming_str(<<Digit0>>, chars, last.start)
        /\ last.start + 1 < Len(chars)
        /\ IsDecimalDigit(chars[last.start + 2]))
            => last.r.res = "Nothing"

\* C12 witness: the literal "\09" was lexed and is Errant.
C12_Witness ==
    /\ chars = <<DQ, BS, Digit0, Digit9, DQ>>
    /\ last.op = <<"LString">>
    /\ last.start = 0
    /\ last.r.res = "Errant"

(***************************************************************************)
(* Comments and line terminator sequences: sources over `/`, `*`, `a` and  *)
(* LF, and shorter ones over CR, LF, LS, PS and `a`.                       *)
(***************************************************************************)
MaxCmtLen == 5

CmtSources ==
    SeqsUpTo({SLASH, STAR, LowerA, LF}, MaxCmtLen)
        \cup SeqsUpTo({CR, LF, LS, PS, LowerA}, MaxLen)

InitCmt == InitOn(CmtSources)

NextCmt ==
    \E T \in {<<"MultiLineComment">>, <<"SingleLineComment">>, <<"Comment">>,
              <<"LineTerminatorSequence">>, <<"LineTerminator">>,
              V(<<STAR, SLASH>>)} :
        StreamLex(T)

SpecCmt == InitCmt /\ [][NextCmt]_vars

\* The position of the first `*` `/` pair at or after k, read off the source
\* text; -1 when there is none.
RECURSIVE FirstClose(_, _)
FirstClose(cs, k) ==
    IF k + 2 > Len(cs) THEN -1
    ELSE IF cs[k + 1] = STAR /\ cs[k + 2] = SLASH THEN k
    ELSE FirstClose(cs, k + 1)

\* C13: MultiLineComment lex on input that starts with `/*` and has no later
\* `*/` returns Errant.
C13_UnterminatedCommentIsErrant ==
    (/\ last.op = <<"MultiLineComment">>
     /\ upcoming_str(<<SLASH, STAR>>, chars, last.start)
     /\ FirstClose(chars, last.start + 2) = -1)
        => last.r.res = "Errant"

\* C14: on `/*` contents `*/`, MultiLineComment lex ends right after the
\* first `*/`; the token span covers both delimiters and the inner span is
\* the text strictly between them.
C14_CommentConsumesClosing ==
    (/\ last.op = <<"MultiLineComment">>
     /\ upcoming_str(<<SLASH, STAR>>, chars, last.start)
     /\ FirstClose(chars, last.start + 2) # -1)
        => /\ last.r.res = "Lexed"
           /\ index = FirstClose(chars, last.start + 2) + 2
           /\ last.r.tok.span = Span(last.start, FirstClose(chars, last.start + 2) + 2)
           /\ last.r.tok.inner = Span(last.start + 2, FirstClose(chars, last.start + 2))

\* The variant name and length a line terminator sequence starting with c
\* has when followed by next (0 for the end of input).
SequenceAt(c, next) ==
    CASE c = CR /\ next = LF -> <<"CRLF", 2>>
      [] c = CR /\ next # LF -> <<"CR", 1>>
      [] c = LF -> <<"LF", 1>>
      [] c = LS -> <<"LS", 1>>
      [] c = PS -> <<"PS", 1>>

\* C15: LineTerminatorSequence lex takes CR LF as one CRLF sequence spanning
\* both characters, CR not followed by LF (also at the end of input) as the
\* one-character CR variant, and LF, LS, PS as their own one-character
\* variants.
C15_CrLfIsOneSequence ==
    (/\ last.op = <<"LineTerminatorSequence">>
     /\ has_char(chars, last.start)
     /\ chars[last.start + 1] \in {CR, LF, LS, PS})
        => LET next == IF last.start + 1 < Len(chars)
                       THEN chars[last.start + 2] ELSE 0
               want == SequenceAt(chars[last.start + 1], next)
           IN /\ last.r.res = "Lexed"
              /\ last.r.tok.variant = want[1]
              /\ index = last.start + want[2]
              /\ last.r.tok.span = Span(last.start, last.start + want[2])

\* C15 witness: CR LF was lexed as one sequence and the cursor is behind it.
C15_Witness ==
    /\ chars = <<CR, LF, CR>>
    /\ last.op = <<"LineTerminatorSequence">>
    /\ last.start = 0
    /\ last.r.res = "Lexed"
    /\ last.r.tok.variant = "CRLF"
    /\ index = 2

(***************************************************************************)
(* The number lexer of crate::lex, over a SourceIter (characters and a     *)
(* cursor).  A lex function's value is Ok(Some(token)) (Lexed), Ok(None)   *)
(* (Nothing), Err (Errant; the error's span and text are not modelled) or  *)
(* a panic; idx is the cursor it leaves.                                   *)
(***************************************************************************)
\* SourceIter::ahead(0..n) equal to a literal.
ahead_is(lit, cs, i) ==
    /\ i < Len(cs)
    /\ i + Len(lit) <= Len(cs)
    /\ SubSeq(cs, i + 1, i + Len(lit)) = lit

\* SourceErrorHelper::expected / unexpected.
iter_error(i) == Errant(Span_empty, i)

\* #[Lex('c')] on a struct: the one character c.
Lex_char(c, name, cs, i) ==
    IF has_char(cs, i) /\ cs[i + 1] = c
    THEN Lexed([k |-> name, span |-> Span(i, i + 1)], i + 1)
    ELSE Nothing(i)

\* impl<K: Keyword> Lex for K: next() and then offset(TOKEN.len() + 1).
Keyword_lex(TOKEN, name, cs, i) ==
    IF ~ahead_is(TOKEN, cs, i) THEN Nothing(i)
    ELSE Lexed([k |-> name, span |-> Span(i, i + Len(TOKEN))],
               (i + 1) + (Len(TOKEN) + 1))

Infinity_TOKEN == <<73, 110, 102, 105, 110, 105, 116, 121>>
NaN_TOKEN == <<78, 97, 78>>

is_ascii_digit(c) == Digit0 <= c /\ c <= Digit9

DecimalDigits_peek(cs, i) == has_char(cs, i) /\ is_ascii_digit(cs[i + 1])

\* DecimalDigits::lex: the loop takes digits while peek holds.
DecimalDigits_lex(cs, i) ==
    IF ~DecimalDigits_peek(cs, i) THEN Nothing(i)
    ELSE LET j == CHOOSE j \in (i + 1)..Len(cs) :
                      /\ \A k \in i..(j - 1) : is_ascii_digit(cs[k + 1])
                      /\ ~DecimalDigits_peek(cs, j)
         IN Lexed([k |-> "DecimalDigits", span |-> Span(i, (j - 1) + 1)], j)

NonZero_peek(cs, i) ==
    has_char(cs, i) /\ Digit0 < cs[i + 1] /\ cs[i + 1] <= Digit9

DecimalIntegerLiteral_peek(cs, i) ==
    (has_char(cs, i) /\ cs[i + 1] = Digit0) \/ NonZero_peek(cs, i)

\* The spans of an Option<token> as an iterator: none for None.
opt_span(r) == IF r.res = "Lexed" THEN <<r.tok.span>> ELSE <<>>

DecimalIntegerLiteral_lex(cs, i) ==
    IF has_char(cs, i) /\ cs[i + 1] = Digit0
    THEN Lex_char(Digit0, "DecimalIntegerLiteral", cs, i)
    ELSE IF NonZero_peek(cs, i)
    THEN LET after == DecimalDigits_lex(cs, i + 1) IN
         Lexed([k |-> "DecimalIntegerLiteral",
                span |-> Span_combine(Span(i, i + 1), opt_span(after))],
               after.idx)
    ELSE Nothing(i)

\* The one element of a singleton set; { e(x) : x \in {v} } evaluates v once.
the(S) == CHOOSE v \in S : TRUE

\* SignedInteger::lex: a sign that no digits follow is consumed and the
\* value is None.
SignedInteger_lex(cs, i) ==
    IF has_char(cs, i) /\ cs[i + 1] \in {PLUS, MINUS}
    THEN the({ IF d.res # "Lexed" THEN Nothing(i + 1)
               ELSE Lexed([k |-> "SignedInteger",
                           span |-> Span_combine(Span(i, i + 1), <<d.tok.span>>)],
                          d.idx)
               : d \in {DecimalDigits_lex(cs, i + 1)} })
    ELSE DecimalDigits_lex(cs, i)

ExponentPart_peek(cs, i) == has_char(cs, i) /\ cs[i + 1] \in {UpperE, LowerE}

ExponentPart_lex(cs, i) ==
    IF ~ExponentPart_peek(cs, i) THEN Nothing(i)
    ELSE the({ IF int.res # "Lexed" THEN iter_error(int.idx)
               ELSE Lexed([k |-> "ExponentPart",
                           span |-> Span_combine(Span(i, i + 1), <<int.tok.span>>)],
                          int.idx)
               : int \in {SignedInteger_lex(cs, i + 1)} })

\* if ExponentPart::peek(input) { ExponentPart::lex(input).into_lex_result()
\* .unwrap() } else { None }: the unwrap panics on Err.
opt_ExponentPart(cs, i) ==
    the({ IF r.res = "Errant" THEN Panic(r.idx) ELSE r
          : r \in {ExponentPart_lex(cs, i)} })

IntegralDecimalMantissa_peek(cs, i) ==
    /\ DecimalIntegerLiteral_peek(cs, i)
    /\ \E fork \in {DecimalIntegerLiteral_lex(cs, i).idx} :
           has_char(cs, fork) /\ cs[fork + 1] = DOT

IntegralDecimalMantissa_lex(cs, i) ==
    IF ~IntegralDecimalMantissa_peek(cs, i) THEN Nothing(i)
    ELSE the({ the({ the({
             IF exp.res = "Panic" THEN exp
             ELSE Lexed([k |-> "IntegralDecimalMantissa",
                         span |-> Span_combine(int.tok.span,
                                               opt_span(m) \o opt_span(exp))],
                        exp.idx)
             : exp \in {opt_ExponentPart(cs, m.idx)} })
             : m \in {DecimalDigits_lex(cs, int.idx + 1)} })
             : int \in {DecimalIntegerLiteral_lex(cs, i)} })

DecimalMantissa_lex(cs, i) ==
    IF ~(has_char(cs, i) /\ cs[i + 1] = DOT) THEN Nothing(i)
    ELSE the({ IF ds.res # "Lexed" THEN iter_error(ds.idx)
               ELSE the({ IF exp.res = "Panic" THEN exp
                          ELSE Lexed([k |-> "DecimalMantissa",
                                      span |-> IF exp.res = "Lexed"
                                               THEN Span_combine(Span(i, i + 1),
                                                                 <<exp.tok.span>>)
                                               ELSE Span_combine(Span(i, i + 1),
                                                                 <<ds.tok.span>>)],
                                     exp.idx)
                          : exp \in {opt_ExponentPart(cs, ds.idx)} })
               : ds \in {DecimalDigits_lex(cs, i + 1)} })

Integer_lex(cs, i) ==
    IF ~DecimalIntegerLiteral_peek(cs, i) THEN Nothing(i)
    ELSE the({ the({ IF exp.res = "Panic" THEN exp
                     ELSE Lexed([k |-> "Integer",
                                 span |-> Span_combine(int.tok.span, opt_span(exp))],
                                exp.idx)
                     : exp \in {opt_ExponentPart(cs, int.idx)} })
               : int \in {DecimalIntegerLiteral_lex(cs, i)} })

DecimalLiteral_peek(cs, i) ==
    \/ IntegralDecimalMantissa_peek(cs, i)
    \/ (has_char(cs, i) /\ cs[i + 1] = DOT)
    \/ DecimalIntegerLiteral_peek(cs, i)

\* A DecimalLiteral::lex that tries Integer before the mantissa forms.
DecimalLiteral_lex_integer_first(cs, i) ==
    the({ or(map_variant(c, "DecimalLiteral", "Integer"),
          or(map_variant(a, "DecimalLiteral", "IntegralDecimalMantissa"),
             map_variant(b, "DecimalLiteral", "DecimalMantissa")))
          : a \in {IntegralDecimalMantissa_lex(cs, i)},
            b \in {DecimalMantissa_lex(cs, i)},
            c \in {Integer_lex(cs, i)} })

\* #[Lex] on an enum: the variants in order, the first that is not None.
DecimalLiteral_lex(cs, i) ==
    the({ or(map_variant(a, "DecimalLiteral", "IntegralDecimalMantissa"),
          or(map_variant(b, "DecimalLiteral", "DecimalMantissa"),
             map_variant(c, "DecimalLiteral", "Integer")))
          : a \in {IntegralDecimalMantissa_lex(cs, i)},
            b \in {DecimalMantissa_lex(cs, i)},
            c \in {Integer_lex(cs, i)} })

HexIntegerLiteral_peek(cs, i) ==
    ahead_is(<<Digit0, LowerX>>, cs, i) \/ ahead_is(<<Digit0, UpperX>>, cs, i)

\* HexIntegerLiteral::lex: the prefix, one required digit, then digits while
\* is_hex_digit holds.
HexIntegerLiteral_lex(cs, i) ==
    IF ~HexIntegerLiteral_peek(cs, i) THEN Nothing(i)
    ELSE IF ~(has_char(cs, i + 2) /\ is_ascii_hexdigit(cs[i + 3]))
    THEN iter_error(i + 2)
    ELSE LET j == CHOOSE j \in (i + 3)..Len(cs) :
                      /\ \A k \in (i + 2)..(j - 1) : is_ascii_hexdigit(cs[k + 1])
                      /\ ~(has_char(cs, j) /\ is_ascii_hexdigit(cs[j + 1]))
         IN Lexed([k |-> "HexIntegerLiteral",
                   span |-> Span_combine(Span(i, (i + 1) + 1), <<Span(j - 1, j)>>)],
                  j)

\* LIdentifier::is_identifier_start: after `\` it asks
\* UnicodeEscapeSequence::peek of the input itself, not of the fork.
is_identifier_start(cs, i) ==
    /\ has_char(cs, i)
    /\ \/ get_minor_category(cs[i + 1]) \in {"Lu", "Ll", "Lt", "Lm", "Lo", "Nl"}
       \/ cs[i + 1] \in {DOLLAR, UNDERSCORE}
       \/ /\ cs[i + 1] = BS
          /\ cs[i + 1] = LowerU
          /\ i + 5 <= Len(cs)
          /\ \A k \in 1..4 : is_ascii_hexdigit(cs[i + k + 1])

\* NumericLiteral::after_check.
after_check(cs, i) ==
    ~(is_identifier_start(cs, i) \/ DecimalDigits_peek(cs, i))

\* NumericLiteral::lex: .unwrap().unwrap() panics on Err and on None; the
\* after-check follows whatever was lexed.
NumericLiteral_lex(cs, i) ==
    the({ IF res.res \in {"Panic", "Errant"} THEN Panic(res.idx)
          ELSE IF ~after_check(cs, res.idx) THEN iter_error(res.idx)
          ELSE map_variant(res, "NumericLiteral",
                           IF HexIntegerLiteral_peek(cs, i) THEN "Hex" ELSE "Decimal")
          : res \in { IF HexIntegerLiteral_peek(cs, i)
                      THEN unwrap_as_result(HexIntegerLiteral_lex(cs, i))
                      ELSE IF DecimalLiteral_peek(cs, i)
                      THEN unwrap_as_result(DecimalLiteral_lex(cs, i))
                      ELSE Nothing(i) } })

Numeric_peek(cs, i) ==
    \/ ahead_is(Infinity_TOKEN, cs, i)
    \/ ahead_is(NaN_TOKEN, cs, i)
    \/ DecimalLiteral_peek(cs, i)
    \/ HexIntegerLiteral_peek(cs, i)

Numeric_lex(cs, i) ==
    the({ or(map_variant(Keyword_lex(Infinity_TOKEN, "Infinity", cs, i),
                         "Numeric", "Infinity"),
          or(map_variant(Keyword_lex(NaN_TOKEN, "NaN", cs, i), "Numeric", "NaN"),
             map_variant(lit, "Numeric", "Lit")))
          : lit \in {NumericLiteral_lex(cs, i)} })

Sign_lex(cs, i) ==
    or(map_variant(Lex_char(PLUS, "Plus", cs, i), "Sign", "Positive"),
       map_variant(Lex_char(MINUS, "Minus", cs, i), "Sign", "Negative"))

Number_peek(cs, i) ==
    (has_char(cs, i) /\ cs[i + 1] \in {PLUS, MINUS}) \/ Numeric_peek(cs, i)

\* Number::lex and Number::span.
Number_lex(cs, i) ==
    IF ~Number_peek(cs, i) THEN Nothing(i)
    ELSE the({ the({
             IF numeric.res = "Panic" THEN numeric
             ELSE IF numeric.res # "Lexed" THEN iter_error(numeric.idx)
             ELSE Lexed([k |-> "Number", sign |-> sign.res = "Lexed",
                         numeric |-> numeric.tok,
                         span |-> IF sign.res = "Lexed"
                                  THEN Span_combine(sign.tok.span,
                                                    <<numeric.tok.span>>)
                                  ELSE numeric.tok.span],
                        numeric.idx)
             : numeric \in {Numeric_lex(cs, sign.idx)} })
             : sign \in {Sign_lex(cs, i)} })

\* T::lex(&mut iter) for the tokens of crate::lex::number.
IterLex(T) ==
    /\ last.r.res # "Panic"
    /\ \E r \in { CASE T = "Number" -> Number_lex(chars, index)
                    [] T = "NumericLiteral" -> NumericLiteral_lex(chars, index)
                    [] T = "ExponentPart" -> ExponentPart_lex(chars, index) } :
          /\ index' = r.idx
          /\ last' = [op |-> <<"lex", T>>, start |-> index, had_errant |-> errant,
                      r |-> r]
    /\ UNCHANGED chars

MaxNumLen == 4

\* Sources over `0`, `9`, `.`, `e`, `x`, `+`, `$` and space, the keywords
\* with and without a sign, and literals with `X`, `E` and `-`.
NumSources ==
    SeqsUpTo({Digit0, Digit9, DOT, LowerE, LowerX, PLUS, DOLLAR, SP}, MaxNumLen)
        \cup {Infinity_TOKEN, NaN_TOKEN, <<MINUS>> \o NaN_TOKEN,
              <<PLUS>> \o Infinity_TOKEN, NaN_TOKEN \o <<SP, Digit9>>,
              <<Digit0, UpperX, Digit9>>, <<MINUS, Digit0, UpperX, UpperF>>,
              <<MINUS, Digit9, DOT>>, <<Digit9, UpperE, MINUS, Digit9>>}

InitNum == InitOn(NumSources)

NextNum == \E T \in {"Number", "NumericLiteral", "ExponentPart"} : IterLex(T)

SpecNum == InitNum /\ [][NextNum]_vars

\* The numeric grammar read off the source text.  DigitsEnd: the end of the
\* longest run of decimal digits from k (k itself for none).
RECURSIVE DigitsEnd(_, _)
DigitsEnd(cs, k) ==
    IF k < Len(cs) /\ cs[k + 1] \in Digit0..Digit9 THEN DigitsEnd(cs, k + 1) ELSE k

RECURSIVE HexDigitsEnd(_, _)
HexDigitsEnd(cs, k) ==
    IF k < Len(cs) /\ HexDigitsAt(cs, k, 1) THEN HexDigitsEnd(cs, k + 1) ELSE k

\* The position after an optional sign at k.
AfterSign(cs, k) == IF k < Len(cs) /\ cs[k + 1] \in {PLUS, MINUS} THEN k + 1 ELSE k

\* An exponent indicator at k with no digit after its optional sign.
BadExponentAt(cs, k) ==
    /\ k < Len(cs)
    /\ cs[k + 1] \in {LowerE, UpperE}
    /\ DigitsEnd(cs, AfterSign(cs, k + 1)) = AfterSign(cs, k + 1)

\* The end of the exponent part at k, k itself when there is none.
ExponentEnd(cs, k) ==
    IF k < Len(cs) /\ cs[k + 1] \in {LowerE, UpperE} /\ ~BadExponentAt(cs, k)
    THEN DigitsEnd(cs, AfterSign(cs, k + 1))
    ELSE k

\* The end of the decimal integer literal at k (`0`, or 1-9 and digits); -1
\* for none.
IntegerEnd(cs, k) ==
    IF ~(k < Len(cs) /\ cs[k + 1] \in Digit0..Digit9) THEN -1
    ELSE IF cs[k + 1] = Digit0 THEN k + 1
    ELSE DigitsEnd(cs, k)

\* The end of the mantissa of the decimal literal at k, before any exponent;
\* -1 for none.
MantissaEnd(cs, k) ==
    IF IntegerEnd(cs, k) # -1
    THEN IF IntegerEnd(cs, k) < Len(cs) /\ cs[IntegerEnd(cs, k) + 1] = DOT
         THEN DigitsEnd(cs, IntegerEnd(cs, k) + 1)
         ELSE IntegerEnd(cs, k)
    ELSE IF k + 1 < Len(cs) /\ cs[k + 1] = DOT /\ cs[k + 2] \in Digit0..Digit9
    THEN DigitsEnd(cs, k + 1)
    ELSE -1

HexPrefixAt(cs, k) ==
    k + 1 < Len(cs) /\ cs[k + 1] = Digit0 /\ cs[k + 2] \in {LowerX, UpperX}

\* The end of the longest numeric literal at k; -1 for none.
LiteralEnd(cs, k) ==
    IF HexPrefixAt(cs, k) /\ HexDigitsEnd(cs, k + 2) > k + 2
    THEN HexDigitsEnd(cs, k + 2)
    ELSE IF MantissaEnd(cs, k) # -1 THEN ExponentEnd(cs, MantissaEnd(cs, k))
    ELSE -1

\* c may not follow a numeric literal: an IdentifierStart character or a
\* decimal digit.
MayNotFollow(c) == StartOK(c) \/ c \in Digit0..Digit9

\* C16: when NumericLiteral lex succeeds, the character after the consumed
\* literal is neither an IdentifierStart character nor a decimal digit; when
\* such a character follows the numeric literal in the text, the result is
\* an error.
C16_NumericAfterCheck ==
    last.op = <<"lex", "NumericLiteral">>
        => /\ (last.r.res = "Lexed" /\ index < Len(chars))
                => ~MayNotFollow(chars[index + 1])
           /\ (/\ LiteralEnd(chars, last.start) \in 0..(Len(chars) - 1)
               /\ MayNotFollow(chars[LiteralEnd(chars, last.start) + 1]))
                => last.r.res = "Errant"

\* C17: when the numeric grammar is violated mid-way (a hex prefix with no
\* hex digit after it, an exponent indicator with no digits after its
\* optional sign, a leading `.` with no digit after it), Number lex returns
\* an error value.
C17_MalformedNumberIsError ==
    LET s == AfterSign(chars, last.start) IN
    (/\ last.op = <<"lex", "Number">>
     /\ \/ HexPrefixAt(chars, s) /\ HexDigitsEnd(chars, s + 2) = s + 2
        \/ MantissaEnd(chars, s) # -1 /\ BadExponentAt(chars, MantissaEnd(chars, s))
        \/ /\ s < Len(chars)
           /\ chars[s + 1] = DOT
           /\ DigitsEnd(chars, s + 1) = s + 1)
        => last.r.res = "Errant"

\* C18: the span of a successfully lexed Number starts at the cursor before
\* the call and ends at the cursor after it.
C18_NumberSpanIsConsumedRange ==
    (last.op = <<"lex", "Number">> /\ last.r.res = "Lexed")
        => last.r.tok.span = Span(last.start, index)

(***************************************************************************)
(* Runs of hex digits: sources over `0`, `2`, `a`, `F` and `,`.             *)
(***************************************************************************)
MaxHexLen == 4

InitHex == InitOn(SeqsUpTo({Digit0, Digit2, LowerA, UpperF, COMMA}, MaxHexLen))

NextHex ==
    \E T \in {AtLeastT(1, <<"HexDigit">>), <<"HexDigit">>, V(<<COMMA>>)} : StreamLex(T)

SpecHex == InitHex /\ [][NextHex]_vars

\* C19: mv() of a lexed run of hex digits is the base-16 value of the digit
\* string read with the first digit most significant.
C19_HexRunValue ==
    (last.op = AtLeastT(1, <<"HexDigit">>) /\ last.r.res = "Lexed")
        => AtLeast_mv(last.r.tok) = HexNumber(chars, last.start, index - last.start)

(***************************************************************************)
(* SourceFile: line starts, line/column lookup and the display form of a    *)
(* location (common/file.rs).                                               *)
(***************************************************************************)
RECURSIVE line_starts_from(_, _, _)
\* The while loop of line_starts: i is the 0-based index, v the vector so far.
line_starts_from(st, i, v) ==
    IF ~(i < Len(st)) THEN v
    ELSE IF st[i + 1] \in {LF, LS, PS} THEN line_starts_from(st, i + 1, Append(v, i + 1))
    ELSE IF st[i + 1] = CR
         THEN IF i + 1 < Len(st) /\ st[i + 2] = LF
              THEN line_starts_from(st, i + 2, Append(v, i + 2))
              ELSE line_starts_from(st, i + 1, Append(v, i + 1))
    ELSE line_starts_from(st, i + 1, v)

\* A line_starts that keeps a last start at the end of the text.
line_starts_keep_last(st) == line_starts_from(st, 0, <<0>>)

\* fn line_starts: the loop, then the pop of a last start at or past the end.
line_starts(st) ==
    the({ IF Len(v) > 0 /\ v[Len(v)] >= Len(st) THEN SubSeq(v, 1, Len(v) - 1) ELSE v :
            v \in {line_starts_from(st, 0, <<0>>)} })

\* char::len_utf8: the number of bytes of a character in a String.
len_utf8(c) == IF c < 128 THEN 1 ELSE IF c < 2048 THEN 2 ELSE IF c < 65536 THEN 3 ELSE 4

RECURSIVE contents_len(_)
\* String::len of the file's contents: a length in bytes.
contents_len(cs) == IF cs = <<>> THEN 0 ELSE len_utf8(Head(cs)) + contents_len(Tail(cs))

NoLocation == [k |-> "None"]

\* line_col with the end of a line counted as part of it.
line_col_inclusive_end(starts, len, loc) ==
    the({ IF hits = {} THEN NoLocation
          ELSE the({ [k |-> "Some", line |-> ln - 1, column |-> loc - starts[ln]] :
                        ln \in {CHOOSE m \in hits : \A o \in hits : m <= o} }) :
            hits \in {{ ln \in 1..Len(starts) :
                          /\ starts[ln] <= loc
                          /\ loc <= (Tail(starts) \o <<len>>)[ln] }} })

\* SourceFile::line_col: each line start zipped with the next one (the last
\* with contents.len()), the first pair containing loc wins.
line_col(starts, len, loc) ==
    the({ IF hits = {} THEN NoLocation
          ELSE the({ [k |-> "Some", line |-> ln - 1, column |-> loc - starts[ln]] :
                        ln \in {CHOOSE m \in hits : \A o \in hits : m <= o} }) :
            hits \in {{ ln \in 1..Len(starts) :
                          /\ starts[ln] <= loc
                          /\ loc < (Tail(starts) \o <<len>>)[ln] }} })

\* The path of SourceFile::dummy_file.
DummyPath == "DUMMY.FILE"

\* Source::locate for SourceFile; the file field of LineColumn is the path.
locate(cs, span) ==
    IF in_bounds(cs, span)
    THEN the({ IF lc.k = "None" THEN NoLocation
               ELSE [k |-> "Some", file |-> DummyPath, line |-> lc.line,
                     column |-> lc.column] :
                 lc \in {line_col(line_starts(cs), contents_len(cs), span.start)} })
    ELSE NoLocation

\* Display for LineColumn: write!(f, "{}:{}:{}", file, line + 1, column + 1).
LineColumn_fmt(lc) == <<lc.file, ":", lc.line + 1, ":", lc.column + 1>>

\* A call of locate on the file; the span is the caller's.
Locate(s, e) ==
    /\ \E l \in {locate(chars, Span(s, e))} :
          last' = [op |-> <<"locate">>, start |-> index, had_errant |-> errant,
                   r |-> [res |-> "Located", idx |-> index, span |-> Span(s, e),
                          loc |-> l, text |-> <<>>]]
    /\ UNCHANGED <<chars, index>>

\* Formatting the location the last locate call returned.
ShowLocation ==
    /\ last.op = <<"locate">>
    /\ last.r.loc.k = "Some"
    /\ last' = [last EXCEPT !.op = <<"fmt">>,
                            !.r.text = LineColumn_fmt(last.r.loc)]
    /\ UNCHANGED <<chars, index>>

MaxFileLen == 4

InitLoc == InitOn(SeqsUpTo({LF, CR, LS, PS, LowerA}, MaxFileLen))

NextLoc ==
    \/ \E s \in 0..(Len(chars) + 1), e \in 0..(Len(chars) + 1) : Locate(s, e)
    \/ ShowLocation

SpecLoc == InitLoc /\ [][NextLoc]_vars

\* The 1-based index into line_starts of the line holding character index
\* loc, with the end of the file taken as the character count.
LineOf(starts, cs, loc) ==
    { ln \in 1..Len(starts) :
        /\ starts[ln] <= loc
        /\ loc < (IF ln < Len(starts) THEN starts[ln + 1] ELSE Len(cs)) }

\* C20: for a span inside the bounds whose start indexes a character, locate
\* returns the 0-based line whose start is at or before span.start and whose
\* successor's start (or the end of the file) is after it, with column
\* span.start - line_starts[line]; its display form is
\* path:(line+1):(column+1); a span ending past the character count gives None.
C20_LocateLineColumn ==
    last.op \in {<<"locate">>, <<"fmt">>} =>
        /\ (last.r.span.end <= Len(chars) /\ last.r.span.start < Len(chars))
              => /\ last.r.loc.k = "Some"
                 /\ (last.r.loc.line + 1) \in LineOf(line_starts(chars), chars, last.r.span.start)
                 /\ last.r.loc.column
                       = last.r.span.start - line_starts(chars)[last.r.loc.line + 1]
                 /\ last.op = <<"fmt">>
                       => last.r.text = <<DummyPath, ":", last.r.loc.line + 1, ":",
                                          last.r.loc.column + 1>>
        /\ last.r.span.end > Len(chars) => last.r.loc.k = "None"

\* `a<CR><LF>a` located at the LF of the CRLF and shown as DUMMY.FILE:1:3.
C20_Witness ==
    /\ chars = <<LowerA, CR, LF, LowerA>>
    /\ last.op = <<"fmt">>
    /\ last.r.span = Span(2, 3)
    /\ last.r.text = <<DummyPath, ":", 1, ":", 3>>

(***************************************************************************)
(* Span::subspan (common/location.rs): a range of usize bounds relative to  *)
(* the start of a span.                                                     *)
(***************************************************************************)
NoSpan == [k |-> "None"]

SomeSpan(sp) == [k |-> "Some", span |-> sp]

\* Span::subspan: the bounds of `indexes` are <<"Included", n>>,
\* <<"Excluded", n>> or <<"Unbounded">>, as std::ops::Bound.
Span_subspan(self, sb, eb) ==
    the({ IF se[2] > self.end THEN NoSpan ELSE SomeSpan(Span(se[1], se[2])) :
            se \in {<< CASE sb[1] = "Included" -> self.start + sb[2]
                         [] sb[1] = "Excluded" -> self.start + (sb[2] + 1)
                         [] sb[1] = "Unbounded" -> self.start,
                       CASE eb[1] = "Included" -> self.start + (eb[2] + 1)
                         [] eb[1] = "Excluded" -> self.start + eb[2]
                         [] eb[1] = "Unbounded" -> self.end >>} })

MaxSpanEnd == 3

MaxRangeIdx == 4

Bounds == {<<"Unbounded">>} \cup ({"Included", "Excluded"} \X (0..MaxRangeIdx))

\* A call of subspan on a span of the source with start <= end.
Subspan(self, sb, eb) ==
    /\ last' = [op |-> <<"subspan">>, start |-> index, had_errant |-> errant,
                r |-> [res |-> "Subspan", idx |-> index, self |-> self,
                       sb |-> sb, eb |-> eb, out |-> Span_subspan(self, sb, eb)]]
    /\ UNCHANGED <<chars, index>>

InitSpan == InitOn(SeqsUpTo({LowerA}, MaxSpanEnd))

NextSpan ==
    \E s \in 0..Len(chars), e \in 0..Len(chars), sb \in Bounds, eb \in Bounds :
        s <= e /\ Subspan(Span(s, e), sb, eb)

SpecSpan == InitSpan /\ [][NextSpan]_vars

\* The first index a range bound includes, and the first it no longer
\* includes, relative to index 0; `len` stands for an unbounded end.
RangeFirst(sb) == IF sb[1] = "Unbounded" THEN 0 ELSE IF sb[1] = "Included" THEN sb[2] ELSE sb[2] + 1

RangePast(eb, len) ==
    IF eb[1] = "Unbounded" THEN len ELSE IF eb[1] = "Included" THEN eb[2] + 1 ELSE eb[2]

\* C21: subspan returns None whenever the range, taken relative to the span's
\* start, does not lie inside the span, and a returned span s satisfies
\* self.start <= s.start <= s.end <= self.end.
C21_SubspanIsContained ==
    last.op = <<"subspan">> =>
        /\ last.r.out.k = "Some" =>
              /\ last.r.self.start <= last.r.out.span.start
              /\ last.r.out.span.start <= last.r.out.span.end
              /\ last.r.out.span.end <= last.r.self.end
        /\ ~(/\ RangeFirst(last.r.sb)
                   <= RangePast(last.r.eb, last.r.self.end - last.r.self.start)
             /\ RangePast(last.r.eb, last.r.self.end - last.r.self.start)
                   <= last.r.self.end - last.r.self.start)
              => last.r.out.k = "None"

(***************************************************************************)
(* LexResult combinators on a stream: input.lex::<A>() followed by or, and, *)
(* map or expected_msg, the closures lexing B from the same stream.         *)
(***************************************************************************)
MaxCombLen == 3

CombTypes == {V(<<DQ>>), <<"HexDigit">>, <<"LString">>, ExactlyT(2, <<"HexDigit">>)}

\* input.lex::<A>().or(|| input.lex::<B>())
OrLex(A, B) ==
    /\ \E ra \in {Lex(A, chars, index)} :
       \E r \in {or(ra, Lex(B, chars, ra.idx))} :
          /\ index' = r.idx
          /\ last' = [op |-> <<"or", A, B>>, start |-> index, had_errant |-> errant,
                      r |-> r]
    /\ UNCHANGED chars

\* input.lex::<A>().and(|_| input.lex::<B>())
AndLex(A, B) ==
    /\ \E ra \in {Lex(A, chars, index)} :
       \E r \in {and(ra, Lex(B, chars, ra.idx))} :
          /\ index' = r.idx
          /\ last' = [op |-> <<"and", A, B>>, start |-> index, had_errant |-> errant,
                      r |-> r]
    /\ UNCHANGED chars

\* input.lex::<A>().map(Self::Variant)
MapLex(A) ==
    /\ \E r \in {map_variant(Lex(A, chars, index), "Mapped", "Variant")} :
          /\ index' = r.idx
          /\ last' = [op |-> <<"map", A>>, start |-> index, had_errant |-> errant,
                      r |-> r]
    /\ UNCHANGED chars

\* input.lex::<A>().expected_msg(input, msg)
ExpectedLex(A) ==
    /\ \E r \in {expected_msg(Lex(A, chars, index), chars)} :
          /\ index' = r.idx
          /\ last' = [op |-> <<"expected", A>>, start |-> index,
                      had_errant |-> errant, r |-> r]
    /\ UNCHANGED chars

InitComb == InitOn(SeqsUpTo({DQ, LowerA, COMMA}, MaxCombLen))

NextComb ==
    \/ \E A \in CombTypes, B \in CombTypes : OrLex(A, B)
    \/ \E A \in CombTypes, B \in CombTypes : AndLex(A, B)
    \/ \E A \in CombTypes : MapLex(A)
    \/ \E A \in CombTypes : ExpectedLex(A)

SpecComb == InitComb /\ [][NextComb]_vars

\* The receiver of the last combinator call: A lexed where the call began.
Receiver == Lex(last.op[2], chars, last.start)

\* C22: or returns a Lexed or Errant receiver unchanged, the stream where the
\* receiver left it, and the alternative's outcome only for a Nothing
\* receiver; and and map act on Lexed only and pass Errant and Nothing
\* through; expected_msg turns Nothing into Errant at the stream's position
\* and leaves Lexed and Errant unchanged.
C22_CombinatorsShortCircuit ==
    /\ last.op[1] = "or" =>
          /\ Receiver.res # "Nothing" => (last.r = Receiver /\ index = Receiver.idx)
          /\ Receiver.res = "Nothing" => last.r = Lex(last.op[3], chars, Receiver.idx)
    /\ last.op[1] = "and" =>
          /\ Receiver.res # "Lexed" => (last.r = Receiver /\ index = Receiver.idx)
          /\ Receiver.res = "Lexed" => last.r = Lex(last.op[3], chars, Receiver.idx)
    /\ last.op[1] = "map" =>
          /\ Receiver.res # "Lexed" => (last.r = Receiver /\ index = Receiver.idx)
          /\ Receiver.res = "Lexed" =>
                /\ last.r.res = "Lexed"
                /\ last.r.tok.inner = Receiver.tok
                /\ index = Receiver.idx
    /\ last.op[1] = "expected" =>
          /\ Receiver.res # "Nothing" => (last.r = Receiver /\ index = Receiver.idx)
          /\ Receiver.res = "Nothing" =>
                /\ last.r.res = "Errant"
                /\ last.r.err.start = last.start
                /\ index = last.start

\* `a"` : Exactly<2, HexDigit> is Errant after the one digit, and the `"` the
\* alternative would lex at the cursor is not tried.
C22_Witness ==
    /\ chars = <<LowerA, DQ>>
    /\ last.op = <<"or", ExactlyT(2, <<"HexDigit">>), V(<<DQ>>)>>
    /\ last.start = 0
    /\ last.r.res = "Errant"
    /\ index = 1
    /\ Lex(V(<<DQ>>), chars, index).res = "Lexed"

(***************************************************************************)
(* Cardinality of the quantified types.                                     *)
(***************************************************************************)
RECURSIVE RunInfo(_, _, _, _)
\* The run of consecutive T at position i: how many lex one after another,
\* where the run ends and what the lex of T after the run's last element is.
RunInfo(T, cs, i, n) ==
    the({ IF r.res = "Lexed" THEN RunInfo(T, cs, r.idx, n + 1)
          ELSE [n |-> n, idx |-> i, stop |-> r.res] :
            r \in {Lex(T, cs, i)} })

\* The run at the cursor of the last call of a quantified type.
LastRun ==
    RunInfo(last.op[IF last.op[1] = "Many" THEN 2 ELSE 3], chars, last.start, 0)

\* C23: a Lexed Exactly<N,T> holds exactly N elements and a Lexed AtLeast<N,T>
\* at least N; a run shorter than N (for Exactly, of a length other than N) is
\* Errant; Many<T> is Lexed with the whole run of consecutive T at the cursor,
\* an empty one included, unless an element is Errant, and then it is Errant.
C23_QuantifierCardinality ==
    /\ last.op[1] = "Many" =>
          /\ LastRun.stop = "Nothing" =>
                /\ last.r.res = "Lexed"
                /\ Len(last.r.tok.elems) = LastRun.n
                /\ index = LastRun.idx
          /\ LastRun.stop = "Errant" => last.r.res = "Errant"
    /\ last.op[1] = "AtLeast" =>
          /\ last.r.res = "Lexed" =>
                /\ Len(last.r.tok.elems) >= last.op[2]
                /\ Len(last.r.tok.elems) = LastRun.n
          /\ LastRun.n < last.op[2] => last.r.res = "Errant"
          /\ (LastRun.n >= last.op[2] /\ LastRun.stop = "Nothing") => last.r.res = "Lexed"
    /\ last.op[1] = "Exactly" =>
          /\ last.r.res = "Lexed" => Len(last.r.tok.elems) = last.op[2]
          /\ LastRun.n # last.op[2] => last.r.res = "Errant"
          /\ (LastRun.n = last.op[2] /\ LastRun.stop = "Nothing") => last.r.res = "Lexed"

\* `aaa` as Exactly<2, HexDigit>: a run of three is Errant.
C23_Witness ==
    /\ chars = <<LowerA, LowerA, LowerA>>
    /\ last.op = ExactlyT(2, <<"HexDigit">>)
    /\ last.start = 0
    /\ last.r.res = "Errant"
    /\ LastRun.n = 3

(***************************************************************************)
(* The two Verbatim types: lexing::utils::verbatim::Verbatim (the one v!()  *)
(* names, lexed through Lex above) and lexing::tokens::Verbatim.            *)
(***************************************************************************)
\* str::len of the literal: a length in UTF-8 bytes.
str_len(lit) == contents_len(lit)

\* tokens::Verbatim::lex: take().unwrap() once for each of 0..A.len().
tokens_Verbatim_lex(lit, cs, i) ==
    IF i + str_len(lit) > Len(cs)
    THEN Panic(Len(cs))
    ELSE Lexed([k |-> "Verbatim",
                span |-> SpanIter_combine(
                    [n \in 1..str_len(lit) |-> Span(i + n - 1, (i + n - 1) + 1)]).span],
               i + str_len(lit))

\* input.lex::<tokens::Verbatim<A>>(): peek, then lex when Possible.
TokensVerbatimLex(lit) ==
    /\ last.r.res # "Panic"
    /\ \E r \in { IF upcoming_str(lit, chars, index)
                  THEN tokens_Verbatim_lex(lit, chars, index)
                  ELSE Nothing(index) } :
          /\ index' = r.idx
          /\ last' = [op |-> <<"tokens::Verbatim", lit>>, start |-> index,
                      had_errant |-> errant, r |-> r]
    /\ UNCHANGED chars

MaxVerbLen == 4

Literals == {<<COMMA>>, <<LS>>, <<PS>>, <<ZWNJ>>, <<LowerA, LS>>}

InitVerb == InitOn(SeqsUpTo({COMMA, LowerA, LS, PS, ZWNJ}, MaxVerbLen))

NextVerb ==
    \/ \E lit \in Literals : StreamLex(V(lit))
    \/ \E lit \in Literals : TokensVerbatimLex(lit)

SpecVerb == InitVerb /\ [][NextVerb]_vars

\* The characters from position i on begin with the literal.
BeginsWith(lit, cs, i) ==
    /\ i + Len(lit) <= Len(cs)
    /\ SubSeq(cs, i + 1, i + Len(lit)) = lit

\* C24: a Verbatim lex is Nothing unless the upcoming characters equal the
\* literal's; when they do it is Lexed, the cursor moves by the number of
\* characters of the literal (not of its UTF-8 bytes) and the span covers
\* exactly those characters.
C24_VerbatimConsumesLiteral ==
    last.op[1] \in {"Verbatim", "tokens::Verbatim"} =>
        /\ ~BeginsWith(last.op[2], chars, last.start)
              => (last.r.res = "Nothing" /\ index = last.start)
        /\ BeginsWith(last.op[2], chars, last.start) =>
              /\ last.r.res = "Lexed"
              /\ index = last.start + Len(last.op[2])
              /\ last.r.tok.span = Span(last.start, last.start + Len(last.op[2]))

(***************************************************************************)
(* The line starts of a file, against the positions of its terminators.     *)
(***************************************************************************)
\* Index 0 and the index just after every line terminator sequence; the LF
\* of a CR LF ends the sequence the CR began.
AfterTerminators(cs) ==
    {0} \cup { k \in 1..Len(cs) :
                 \/ cs[k] \in {LF, LS, PS}
                 \/ (cs[k] = CR /\ ~(k < Len(cs) /\ cs[k + 1] = LF)) }

\* C25: line_starts lists, in strictly increasing order, index 0 and the
\* index after every line terminator sequence (CR LF counted once), without
\* an entry equal to the character count.
C25_LineStarts ==
    \A starts \in {line_starts(chars)} :
        /\ \A n \in 1..(Len(starts) - 1) : starts[n] < starts[n + 1]
        /\ {starts[n] : n \in 1..Len(starts)} = AfterTerminators(chars) \ {Len(chars)}

\* `<CR><LF>a<LF>` : one start after the CR LF, none after the final LF.
C25_Witness ==
    /\ chars = <<CR, LF, LowerA, LF>>
    /\ last.op = <<"locate">>
    /\ last.r.loc.k = "Some"
    /\ line_starts(chars) = <<0, 2>>

(***************************************************************************)
(* Which alternative of the numeric literal a text commits to.              *)
(***************************************************************************)
\* The form of the numeric literal at k, read off the text.
FormAt(cs, k) ==
    IF HexPrefixAt(cs, k) /\ HexDigitsEnd(cs, k + 2) > k + 2 THEN "HexIntegerLiteral"
    ELSE IF IntegerEnd(cs, k) # -1
    THEN IF IntegerEnd(cs, k) < Len(cs) /\ cs[IntegerEnd(cs, k) + 1] = DOT
         THEN "IntegralDecimalMantissa"
         ELSE "Integer"
    ELSE IF k + 1 < Len(cs) /\ cs[k + 1] = DOT /\ cs[k + 2] \in Digit0..Digit9
    THEN "DecimalMantissa"
    ELSE "None"

\* The alternative a NumericLiteral token holds.
FormOf(lit) == IF lit.variant = "Hex" THEN "HexIntegerLiteral" ELSE lit.inner.variant

\* Where the literal of the last Number or NumericLiteral call begins.
LiteralStart ==
    IF last.op = <<"lex", "Number">> THEN AfterSign(chars, last.start) ELSE last.start

\* C26: a lexed numeric literal holds the alternative its text has (an
\* integer part and `.`: IntegralDecimalMantissa; `.` and digits:
\* DecimalMantissa; an integer part and no dot: Integer; `0x`/`0X` and hex
\* digits: HexIntegerLiteral), with or without a sign, and a literal of one of
\* these forms that is followed by nothing that may not follow it is lexed.
C26_AlternativeOrder ==
    /\ (last.op = <<"lex", "NumericLiteral">> /\ last.r.res = "Lexed")
          => FormOf(last.r.tok) = FormAt(chars, LiteralStart)
    /\ (/\ last.op = <<"lex", "Number">>
        /\ last.r.res = "Lexed"
        /\ last.r.tok.numeric.variant = "Lit")
          => FormOf(last.r.tok.numeric.inner) = FormAt(chars, LiteralStart)
    /\ (/\ last.op \in {<<"lex", "Number">>, <<"lex", "NumericLiteral">>}
        /\ FormAt(chars, LiteralStart) # "None"
        /\ \A e \in {LiteralEnd(chars, LiteralStart)} :
              e = Len(chars) \/ ~MayNotFollow(chars[e + 1]))
          => (last.r.res = "Lexed" /\ index = LiteralEnd(chars, LiteralStart))

\* `+9.` lexed as a Number: the IntegralDecimalMantissa with neither fraction
\* digits nor exponent.
C26_Witness ==
    /\ chars = <<PLUS, Digit9, DOT>>
    /\ last.op = <<"lex", "Number">>
    /\ last.start = 0
    /\ last.r.res = "Lexed"
    /\ FormOf(last.r.tok.numeric.inner) = "IntegralDecimalMantissa"
    /\ index = 3

(***************************************************************************)
(* The token lexer of crate::lex: identifiers, punctuators, strings with    *)
(* their escapes (lex/tokens.rs, lex/strings.rs, lex/escape.rs) and Token.  *)
(***************************************************************************)
\* SourceIter::relative_match(1..=n, is_hex_digit) at position i.
relative_match_hex(n, cs, i) ==
    /\ i + 1 < Len(cs)
    /\ i + n + 1 <= Len(cs)
    /\ \A k \in 1..n : is_ascii_hexdigit(cs[i + k + 1])

\* EscapeCharacter::peek.
EscapeCharacter_peek(cs, i) ==
    /\ has_char(cs, i)
    /\ \/ is_single_escape_char(cs[i + 1])
       \/ is_ascii_digit(cs[i + 1])
       \/ cs[i + 1] \in {LowerX, LowerU}

\* NonEscapeCharacter::peek: also true at the end of the input.
NonEscapeCharacter_peek(cs, i) ==
    ~(EscapeCharacter_peek(cs, i) \/ (has_char(cs, i) /\ is_line_terminator(cs[i + 1])))

\* The cursor after EscapeSequence::lex at i, the variants tried in the order
\* Unicode, Hex, Null, Character (Single, NonEscape); -1 when every variant
\* is None.  NonEscapeCharacter::lex is None at the end of the input.
lex_EscapeSequence_end(cs, i) ==
    IF has_char(cs, i) /\ cs[i + 1] = LowerU /\ relative_match_hex(4, cs, i) THEN i + 5
    ELSE IF has_char(cs, i) /\ cs[i + 1] = LowerX /\ relative_match_hex(2, cs, i)
    THEN i + 3
    ELSE IF /\ has_char(cs, i)
            /\ cs[i + 1] = Digit0
            /\ ~(has_char(cs, i + 1) /\ is_ascii_digit(cs[i + 2]))
    THEN i + 1
    ELSE IF has_char(cs, i) /\ is_single_escape_char(cs[i + 1]) THEN i + 1
    ELSE IF NonEscapeCharacter_peek(cs, i) /\ has_char(cs, i) THEN i + 1
    ELSE -1

\* EscapeSequence::peek: the disjunction of the variants' peeks.
lex_EscapeSequence_peek(cs, i) ==
    \/ has_char(cs, i) /\ cs[i + 1] = LowerU /\ relative_match_hex(4, cs, i)
    \/ has_char(cs, i) /\ cs[i + 1] = LowerX /\ relative_match_hex(2, cs, i)
    \/ /\ has_char(cs, i)
       /\ cs[i + 1] = Digit0
       /\ ~(has_char(cs, i + 1) /\ is_ascii_digit(cs[i + 2]))
    \/ has_char(cs, i) /\ is_single_escape_char(cs[i + 1])
    \/ NonEscapeCharacter_peek(cs, i)

RECURSIVE eat_inner_chars(_, _, _)
\* eat_inner_chars: the loop from position i; Lexed stands for Ok(Some(_)),
\* the cursor left where the loop stopped.  An escape is lexed on a fork one
\* past the `\`; .unwrap() of a None escape panics.
eat_inner_chars(delimit, cs, i) ==
    IF ~has_char(cs, i) THEN Lexed(NoTok, i)
    ELSE IF cs[i + 1] = delimit THEN Lexed(NoTok, i)
    ELSE IF is_line_terminator(cs[i + 1]) THEN iter_error(i)
    ELSE IF cs[i + 1] = BS
    THEN IF lex_EscapeSequence_peek(cs, i + 1)
         THEN IF lex_EscapeSequence_end(cs, i + 1) = -1 THEN Panic(i)
              ELSE eat_inner_chars(delimit, cs, lex_EscapeSequence_end(cs, i + 1))
         ELSE IF has_char(cs, i + 1) /\ is_line_terminator(cs[i + 2])
         THEN eat_inner_chars(delimit, cs,
                  IF cs[i + 2] = CR /\ has_char(cs, i + 2) /\ cs[i + 3] = LF
                  THEN i + 3 ELSE i + 2)
         ELSE iter_error(i)
    ELSE eat_inner_chars(delimit, cs, i + 1)

\* SingleString::lex and DoubleString::lex, which differ in the delimiter.
DelimitedString_lex(delimit, name, cs, i) ==
    IF ~(has_char(cs, i) /\ cs[i + 1] = delimit) THEN Nothing(i)
    ELSE the({ IF inner.res # "Lexed" THEN inner
               ELSE IF ~(has_char(cs, inner.idx) /\ cs[inner.idx + 1] = delimit)
               THEN iter_error(inner.idx)
               ELSE Lexed([k |-> name, span |-> Span(i, inner.idx + 1)], inner.idx + 1)
               : inner \in {eat_inner_chars(delimit, cs, i + 1)} })

\* #[Lex] enum LString { Single, Double }.
lex_LString_lex(cs, i) ==
    or(map_variant(DelimitedString_lex(SQ, "SingleString", cs, i), "LString", "Single"),
       map_variant(DelimitedString_lex(DQ, "DoubleString", cs, i), "LString", "Double"))

\* LIdentifier::is_identifier_part.
is_identifier_part(cs, i) ==
    \/ is_identifier_start(cs, i)
    \/ /\ has_char(cs, i)
       /\ \/ get_minor_category(cs[i + 1]) \in {"Mn", "Mc", "Nd", "Pc"}
          \/ cs[i + 1] \in {ZWNJ, ZWJ}

\* LIdentifier::lex: end starts as start + 1 and becomes the index of each
\* character the loop takes; the span is start..=end.
LIdentifier_lex(cs, i) ==
    IF ~is_identifier_start(cs, i) THEN Nothing(i)
    ELSE the({ Lexed([k |-> "LIdentifier",
                      span |-> Span(i, (IF j = i + 1 THEN i + 1 ELSE j - 1) + 1)], j)
               : j \in {CHOOSE j \in (i + 1)..Len(cs) :
                           /\ \A m \in (i + 1)..(j - 1) : is_identifier_part(cs, m)
                           /\ ~is_identifier_part(cs, j)} })

\* #[Lex] enum Punct.
Punct_lex(cs, i) ==
    or(map_variant(Lex_char(LBRACE, "OpenBrace", cs, i), "Punct", "OpenBrace"),
    or(map_variant(Lex_char(RBRACE, "CloseBrace", cs, i), "Punct", "CloseBrace"),
    or(map_variant(Lex_char(LBRACKET, "OpenBracket", cs, i), "Punct", "OpenBracket"),
    or(map_variant(Lex_char(RBRACKET, "CloseBracket", cs, i), "Punct", "CloseBracket"),
    or(map_variant(Lex_char(COLON, "Colon", cs, i), "Punct", "Colon"),
       map_variant(Lex_char(COMMA, "Comma", cs, i), "Punct", "Comma"))))))

\* A Token::lex that tries Number before Identifier.
Token_lex_number_first(cs, i) ==
    the({ or(map_variant(d, "Token", "Number"),
          or(map_variant(a, "Token", "Identifier"),
          or(map_variant(b, "Token", "Punctuator"),
             map_variant(c, "Token", "String"))))
          : a \in {LIdentifier_lex(cs, i)}, b \in {Punct_lex(cs, i)},
            c \in {lex_LString_lex(cs, i)}, d \in {Number_lex(cs, i)} })

\* Token::lex: each alternative with `?`, the first that is Some; an
\* alternative that is None has left the cursor where it was.
Token_lex(cs, i) ==
    the({ or(map_variant(a, "Token", "Identifier"),
          or(map_variant(b, "Token", "Punctuator"),
          or(map_variant(c, "Token", "String"),
             map_variant(d, "Token", "Number"))))
          : a \in {LIdentifier_lex(cs, i)}, b \in {Punct_lex(cs, i)},
            c \in {lex_LString_lex(cs, i)}, d \in {Number_lex(cs, i)} })

\* Token::lex(&mut iter).
TokenLex ==
    /\ last.r.res # "Panic"
    /\ \E r \in {Token_lex(chars, index)} :
          /\ index' = r.idx
          /\ last' = [op |-> <<"lex", "Token">>, start |-> index,
                      had_errant |-> errant, r |-> r]
    /\ UNCHANGED chars

MaxTokLen == 4

TokSources ==
    SeqsUpTo({LowerA, Digit9, DQ, BS, COMMA, SP, DOT, LF}, MaxTokLen)
        \cup {Infinity_TOKEN, NaN_TOKEN, <<MINUS>> \o NaN_TOKEN,
              <<SQ, DQ, SQ, COLON>>, <<LBRACKET, RBRACKET, LBRACE, RBRACE>>,
              <<DQ, BS, LowerU, Digit0, Digit0, LowerA, LowerA, DQ>>,
              <<DQ, BS, LowerX, LowerA>>}

InitTok == InitOn(TokSources)

NextTok == TokenLex

SpecTok == InitTok /\ [][NextTok]_vars

\* C27: Token lex gives the first alternative present at the cursor, in the
\* order Identifier, Punctuator, String, Number: an identifier-start
\* character (an unsigned Infinity or NaN included) gives an Identifier; a
\* punctuator, a quote and the start of a number give that alternative's
\* outcome, an error included; with none present the result is absent and
\* the cursor has not moved.
C27_TokenOrder ==
    last.op = <<"lex", "Token">> =>
        \A c \in {IF last.start < Len(chars) THEN chars[last.start + 1] ELSE -1} :
            /\ (c # -1 /\ StartOK(c)) =>
                  (last.r.res = "Lexed" /\ last.r.tok.variant = "Identifier")
            /\ c \in {LBRACE, RBRACE, LBRACKET, RBRACKET, COLON, COMMA} =>
                  /\ last.r.res = "Lexed"
                  /\ last.r.tok.variant = "Punctuator"
                  /\ index = last.start + 1
            /\ c \in {SQ, DQ} =>
                  /\ last.r.res \in {"Lexed", "Errant", "Panic"}
                  /\ last.r.res = "Lexed" => last.r.tok.variant = "String"
                  /\ last.r.res # "Lexed" =>
                        last.r = lex_LString_lex(chars, last.start)
            /\ (c \in {PLUS, MINUS, DOT} \/ c \in Digit0..Digit9) =>
                  /\ last.r.res \in {"Lexed", "Errant", "Panic"}
                  /\ last.r.res = "Lexed" => last.r.tok.variant = "Number"
                  /\ last.r.res # "Lexed" => last.r = Number_lex(chars, last.start)
            /\ (/\ ~(c # -1 /\ StartOK(c))
                /\ c \notin {LBRACE, RBRACE, LBRACKET, RBRACKET, COLON, COMMA, SQ, DQ,
                             PLUS, MINUS, DOT}
                /\ c \notin Digit0..Digit9) =>
                  (last.r.res = "Nothing" /\ index = last.start)

\* `NaN` lexed as a Token: an Identifier over the three letters.
C27_Witness ==
    /\ chars = NaN_TOKEN
    /\ last.op = <<"lex", "Token">>
    /\ last.start = 0
    /\ last.r.res = "Lexed"
    /\ last.r.tok.variant = "Identifier"
    /\ index = 3

(***************************************************************************)
(* Single-line comments: lexing::tokens::comment (lexed through Lex above)  *)
(* and the SingleLineComment of crate::lex::tokens.                         *)
(***************************************************************************)
\* crate::lex SingleLineComment::lex: two next() for the slashes, then
\* next().unwrap() while LineTerminator::peek is false, which it also is at
\* the end of the input; the span is start..=end, end being the index of the
\* last character the loop took, or start.
lex_SingleLineComment_lex(cs, i) ==
    IF ~(has_char(cs, i + 1) /\ cs[i + 1] = SLASH /\ cs[i + 2] = SLASH) THEN Nothing(i)
    ELSE IF \A j \in (i + 2)..(Len(cs) - 1) : ~is_line_terminator(cs[j + 1])
    THEN Panic(Len(cs))
    ELSE the({ Lexed([k |-> "SingleLineComment",
                      span |-> Span(i, (IF j = i + 2 THEN i ELSE j - 1) + 1)], j)
               : j \in {CHOOSE j \in (i + 2)..(Len(cs) - 1) :
                           /\ is_line_terminator(cs[j + 1])
                           /\ \A m \in (i + 2)..(j - 1) : ~is_line_terminator(cs[m + 1])} })

\* SingleLineComment::lex(&mut iter) of crate::lex.
IterCommentLex ==
    /\ last.r.res # "Panic"
    /\ \E r \in {lex_SingleLineComment_lex(chars, index)} :
          /\ index' = r.idx
          /\ last' = [op |-> <<"lex", "SingleLineComment">>, start |-> index,
                      had_errant |-> errant, r |-> r]
    /\ UNCHANGED chars

MaxSlcLen == 4

InitSlc == InitOn(SeqsUpTo({SLASH, LowerA, LF, CR, LS}, MaxSlcLen))

NextSlc ==
    \/ StreamLex(<<"SingleLineComment">>)
    \/ StreamLex(<<"LineTerminator">>)
    \/ IterCommentLex

SpecSlc == InitSlc /\ [][NextSlc]_vars

RECURSIVE LineEnd(_, _)
\* The position of the first line terminator at or after k, or the length.
LineEnd(cs, k) ==
    IF k < Len(cs) /\ cs[k + 1] \notin {LF, CR, LS, PS} THEN LineEnd(cs, k + 1) ELSE k

\* C28: on input starting with `//` a SingleLineComment lex succeeds, consumes
\* the `//` and everything before the next line terminator or the end of
\* the input, leaves the cursor there, and its inner span is the consumed
\* text without the `//`.
C28_SingleLineComment ==
    (/\ last.op \in {<<"SingleLineComment">>, <<"lex", "SingleLineComment">>}
     /\ BeginsWith(<<SLASH, SLASH>>, chars, last.start))
        => /\ last.r.res = "Lexed"
           /\ index = LineEnd(chars, last.start + 2)
           /\ last.op = <<"SingleLineComment">> =>
                 IF index > last.start + 2
                 THEN last.r.tok.inner = Span(last.start + 2, index)
                 ELSE last.r.tok.inner.start = last.r.tok.inner.end

(***************************************************************************)
(* Many::lex one loop iteration per step, to state its termination.         *)
(***************************************************************************)
\* The loop of Many::lex entered: v empty, no iteration yet.
ManyBegin(T) ==
    /\ last.r.res \notin {"Running", "Panic"}
    /\ last' = [op |-> ManyT(T), start |-> index, had_errant |-> errant,
                r |-> [res |-> "Running", idx |-> index,
                       tok |-> [k |-> "Many", elems |-> <<>>, span |-> Span_empty],
                       err |-> Span_empty, iters |-> 0]]
    /\ UNCHANGED <<chars, index>>

\* An iteration that pushes the element but leaves the cursor where it was.
ManyIter_no_advance ==
    /\ last.r.res = "Running"
    /\ \E r \in {Lex(last.op[2], chars, index)} :
          /\ index' = index
          /\ last' = IF r.res = "Lexed"
                     THEN [last EXCEPT !.r.iters = @ + 1,
                                       !.r.tok.elems = Append(@, r.tok)]
                     ELSE [last EXCEPT !.r.res = "Lexed"]
    /\ UNCHANGED chars

\* One iteration of the loop: <L as Lex>::lex(input), then push and go on,
\* return the Errant, or break and return Lexed(v).
ManyIter ==
    /\ last.r.res = "Running"
    /\ \E r \in {Lex(last.op[2], chars, index)} :
          /\ index' = r.idx
          /\ last' =
                CASE r.res = "Lexed" ->
                        [last EXCEPT !.r.idx = r.idx,
                                     !.r.iters = @ + 1,
                                     !.r.tok.elems = Append(@, r.tok),
                                     !.r.tok.span =
                                         combine_or_empty(
                                             spans_of(Append(last.r.tok.elems, r.tok)))]
                  [] r.res = "Nothing" -> [last EXCEPT !.r.res = "Lexed"]
                  [] OTHER -> [last EXCEPT !.r.res = r.res, !.r.idx = r.idx,
                                           !.r.err = r.err, !.r.tok = NoTok]
    /\ UNCHANGED chars

MaxManyLen == 4

ManyElements ==
    {<<"HexDigit">>, StringPartT(<<DQ>>), <<"IdentifierPart">>,
     <<"LineTerminatorSequence">>}

InitMany == InitOn(SeqsUpTo({LowerA, DQ, CR, LF}, MaxManyLen))

NextMany == (\E T \in ManyElements : ManyBegin(T)) \/ ManyIter

\* The loop is a sequential program: an iteration that can run does run.
SpecMany == InitMany /\ [][NextMany]_vars /\ WF_vars(ManyIter)

\* C29: a Many<T> lex over elements that consume at least one character
\* returns: the iterations that go on never number more than the characters
\* between the cursor at the call and the cursor now, the cursor never
\* exceeds the character count, and a running loop eventually returns.
C29_ManyTerminates ==
    /\ [](last.op[1] = "Many" =>
            /\ last.r.iters <= index - last.start
            /\ index <= Len(chars))
    /\ (last.r.res = "Running") ~> (last.r.res # "Running")

\* `aaaa` as Many<HexDigit>: returned after four iterations that went on.
C29_Witness ==
    /\ chars = <<LowerA, LowerA, LowerA, LowerA>>
    /\ last.op = ManyT(<<"HexDigit">>)
    /\ last.start = 0
    /\ last.r.res = "Lexed"
    /\ last.r.iters = 4
    /\ index = 4

(***************************************************************************)
(* The operations of SourceStream called directly on the stream.            *)
(***************************************************************************)
\* The outcome of an Option-returning or bool-returning operation.
StreamResult(some, i) ==
    [res |-> IF some THEN "Some" ELSE "None", idx |-> i, tok |-> NoTok,
     err |-> Span_empty]

StreamCall(name, arg, some, i) ==
    /\ last.r.res # "Panic"
    /\ index' = i
    /\ last' = [op |-> <<name, arg>>, start |-> index, had_errant |-> errant,
                r |-> StreamResult(some, i)]
    /\ UNCHANGED chars

\* SourceStream::take.
Take == \E t \in {take(chars, index)} : StreamCall("take", <<>>, t.some, t.idx)

\* SourceStream::take_while(pred).
TakeWhile(pred) ==
    \E t \in {take_while(pred, chars, index)} :
        StreamCall("take_while", pred, t.some, t.idx)

\* SourceStream::take_until(|input| T::peek(input)).
TakeUntil(T) ==
    \E t \in {take_until(T, chars, index)} :
        StreamCall("take_until", T, t.some, t.idx)

\* SourceStream::peek: &self, the cursor is not touched.
Peek == StreamCall("peek", <<>>, has_char(chars, index), index)

\* SourceStream::upcoming(&str): &self, the cursor is not touched.
Upcoming(lit) ==
    StreamCall("upcoming", lit, upcoming_str(lit, chars, index), index)

MaxStreamLen == 3

StreamPreds == {{LowerA}, {LF, CR}, {LowerA, DQ}}

StreamUntil == {<<"LineTerminator">>, V(<<DQ>>), V(<<STAR, SLASH>>)}

StreamLits == {<<DQ>>, <<LowerA, LowerA>>}

InitStream == InitOn(SeqsUpTo({LowerA, DQ, LF, SLASH, STAR}, MaxStreamLen))

NextStream ==
    \/ Take
    \/ \E pred \in StreamPreds : TakeWhile(pred)
    \/ \E T \in StreamUntil : TakeUntil(T)
    \/ Peek
    \/ \E lit \in StreamLits : Upcoming(lit)
    \/ LexToken
    \/ LexQuantified

SpecStream == InitStream /\ [][NextStream]_vars

\* C30: after any sequence of stream operations from a fresh stream the
\* cursor lies in 0..N and no operation moves it back; take at the end of
\* the input returns None, take_while and take_until return None exactly
\* when they consumed nothing, and a None leaves the cursor where it was.
C30_CursorInvariant ==
    /\ [](/\ 0 <= index
          /\ index <= Len(chars)
          /\ last.start <= index
          /\ (last.op[1] = "take" /\ last.start = Len(chars))
                => last.r.res = "None"
          /\ last.op[1] \in {"take_while", "take_until"}
                => (last.r.res = "None" <=> index = last.start)
          /\ last.r.res = "None" => index = last.start)
    /\ [][index' >= index]_vars

\* `a"`: take, then take_while(a) that consumes nothing and returns None
\* with the cursor still at 1.
C30_Witness ==
    /\ chars = <<LowerA, DQ>>
    /\ last.op = <<"take_while", {LowerA}>>
    /\ last.start = 1
    /\ last.r.res = "None"
    /\ index = 1

====
